---- MODULE Spec2Model ----
(***************************************************************************)
(* Stakeholder CRM (CaseForce): the storage module (shared/storage.ts),    *)
(* the taskpane component that owns the current snapshot                   *)
(* (taskpane/taskpane.tsx) and the remote copy behind /api/state.          *)
(*                                                                         *)
(* Text is a sequence of one-character strings, so that trim and           *)
(* toLowerCase are computed.  A timestamp is the number of clock ticks     *)
(* since the epoch; Undefined stands for an absent optional field.         *)
(***************************************************************************)
EXTENDS Integers, Sequences, FiniteSets, Bags, TLC

VARIABLES
    now,            \* the wall clock read by nowIso() / new Date()
    nextId,         \* the next value uuidv4() hands out
    mutSeq,         \* history: how many mutations have been applied so far
    hist,           \* history: content |-> sequence number of the mutation that made it
    host,           \* per surface: what detectHost() returned at mount
    isActive,       \* per surface: the component is mounted (syncFromServer's isActive)
    state,          \* per surface: the React state `state`
    stateRef,       \* per surface: stateRef.current
    pending,        \* per surface: setState calls not yet rendered
    flows,          \* per surface: ingestion handlers suspended at their await
    pull,           \* per surface: a syncFromServer call suspended at its await
    memoryState,    \* per surface: storage.ts memoryState
    localStorage,   \* per surface: localStorage[STORAGE_KEY]
    server,         \* the remote copy behind GET/PUT /api/state
    pushes,         \* PUT /api/state requests in flight (a bag of request bodies)
    snap,           \* the snapshot threaded by a direct caller of the storage API
    last            \* history: the program operation that ran last, with what it saw and returned

vars == <<now, nextId, mutSeq, hist, host, isActive, state, stateRef, pending, flows,
          pull, memoryState, localStorage, server, pushes, snap, last>>

----------------------------------------------------------------------------
(* Bounds of the model *)

MaxTime == 2
MaxMut == 2
MaxFlows == 2
MaxInFlight == 2
MaxPeerMut == 1
MaxCalls == 3
MaxBatches == 2

Surfaces == {"s1", "s2"}

----------------------------------------------------------------------------
(* Values *)

Undefined == 0
Null == [null |-> TRUE]

EmptyState == [stakeholders |-> <<>>, interactions |-> <<>>, updatedAt |-> Undefined]

Max(a, b) == IF a >= b THEN a ELSE b

RECURSIVE MaxOf(_)
MaxOf(S) ==
    IF S = {} THEN 0
    ELSE LET x == CHOOSE y \in S : TRUE IN Max(x, MaxOf(S \ {x}))

Range(f) == {f[i] : i \in DOMAIN f}

RECURSIVE BagOfSeq(_)
BagOfSeq(seq) ==
    IF seq = <<>> THEN EmptyBag ELSE SetToBag({Head(seq)}) (+) BagOfSeq(Tail(seq))

----------------------------------------------------------------------------
(* Strings *)

UpperCase ==
    <<"A", "B", "C", "D", "E", "F", "G", "H", "I", "J", "K", "L", "M", "N",
      "O", "P", "Q", "R", "S", "T", "U", "V", "W", "X", "Y", "Z">>
LowerCase ==
    <<"a", "b", "c", "d", "e", "f", "g", "h", "i", "j", "k", "l", "m", "n",
      "o", "p", "q", "r", "s", "t", "u", "v", "w", "x", "y", "z">>
WhiteSpace == {" ", "\t", "\n"}

LowerOf == [c \in Range(UpperCase) |->
               LowerCase[CHOOSE i \in DOMAIN UpperCase : UpperCase[i] = c]]

toLowerCaseChar(c) == IF c \in DOMAIN LowerOf THEN LowerOf[c] ELSE c

\* String.prototype.toLowerCase
toLowerCase(str) == [i \in DOMAIN str |-> toLowerCaseChar(str[i])]

RECURSIVE trimStart(_)
trimStart(str) ==
    IF str # <<>> /\ Head(str) \in WhiteSpace THEN trimStart(Tail(str)) ELSE str

RECURSIVE trimEnd(_)
trimEnd(str) ==
    IF str # <<>> /\ str[Len(str)] \in WhiteSpace
    THEN trimEnd(SubSeq(str, 1, Len(str) - 1))
    ELSE str

\* String.prototype.trim
trim(str) == trimEnd(trimStart(str))

Digits == <<"0", "1", "2", "3", "4", "5", "6", "7", "8", "9">>

\* String(n) / template interpolation of a number
RECURSIVE toString(_)
toString(n) ==
    IF n < 10 THEN <<Digits[n + 1]>>
    ELSE toString(n \div 10) \o <<Digits[(n % 10) + 1]>>

\* a slice that keeps everything
sliceAll(str, n) == str

\* String.prototype.slice(0, n)
slice(str, n) == SubSeq(str, 1, IF Len(str) < n THEN Len(str) ELSE n)

----------------------------------------------------------------------------
(* storage.ts: timestamps *)

\* Date.parse: the text of an instant gives the instant back; a text that is no date
\* (written as a negative number) gives NaN, which counts as 0
parseIso(timestamp) == IF timestamp = Undefined \/ timestamp < 0 THEN 0 ELSE timestamp

\* a recency that also looks at the last contact of each stakeholder
getStateTimestampWithContacts(st) ==
    MaxOf({0, parseIso(st.updatedAt)}
          \cup {Max(parseIso(s.updatedAt), parseIso(s.lastInteractionAt)) :
                    s \in Range(st.stakeholders)}
          \cup {parseIso(s.createdAt) : s \in Range(st.stakeholders)}
          \cup {parseIso(i.at) : i \in Range(st.interactions)})

getStateTimestamp(st) ==
    MaxOf({0, parseIso(st.updatedAt)}
          \cup {Max(parseIso(s.updatedAt), parseIso(s.createdAt)) : s \in Range(st.stakeholders)}
          \cup {parseIso(i.at) : i \in Range(st.interactions)})

----------------------------------------------------------------------------
(* storage.ts: the entity store.  uuidv4() and nowIso() are passed in as id and t. *)

\* the email normalised without lower-casing it
cleanEmailKeepCase(email) == trim(email)

\* const cleanEmail = (email ?? "").trim().toLowerCase()
cleanEmailOf(email) == toLowerCase(trim(email))

\* an upsert that renames an existing stakeholder even when no name is supplied
upsertStakeholderByEmailRename(st, email, displayName, id, t) ==
    LET cleanEmail == cleanEmailOf(email)
        cleanName == trim(displayName)
        found == {i \in DOMAIN st.stakeholders :
                     toLowerCase(st.stakeholders[i].email) = cleanEmail}
    IN  IF cleanEmail = <<>>
        THEN LET s == [id |-> id,
                       displayName |-> IF cleanName # <<>> THEN cleanName
                                       ELSE <<"Unknown Stakeholder">>,
                       email |-> <<>>, tags |-> <<>>, createdAt |-> t, updatedAt |-> t,
                       lastInteractionAt |-> Undefined, notes |-> <<>>]
             IN  [state |-> [st EXCEPT !.stakeholders = <<s>> \o st.stakeholders],
                  stakeholder |-> s]
        ELSE IF found # {}
        THEN LET existing == st.stakeholders[CHOOSE i \in found : \A j \in found : i <= j]
                 updated == [existing EXCEPT
                                !.displayName = IF cleanName # <<>> THEN cleanName
                                                ELSE cleanEmail,
                                !.updatedAt = t]
             IN  [state |-> [st EXCEPT !.stakeholders =
                                [i \in DOMAIN st.stakeholders |->
                                    IF st.stakeholders[i].id = existing.id THEN updated
                                    ELSE st.stakeholders[i]]],
                  stakeholder |-> updated]
        ELSE LET s == [id |-> id,
                       displayName |-> IF cleanName # <<>> THEN cleanName ELSE cleanEmail,
                       email |-> cleanEmail, tags |-> <<>>, createdAt |-> t, updatedAt |-> t,
                       lastInteractionAt |-> Undefined, notes |-> <<>>]
             IN  [state |-> [st EXCEPT !.stakeholders = <<s>> \o st.stakeholders],
                  stakeholder |-> s]

\* an upsert that looks a missing email up like any other
upsertStakeholderByEmailAnyEmail(st, email, displayName, id, t) ==
    LET cleanEmail == cleanEmailOf(email)
        cleanName == trim(displayName)
        found == {i \in DOMAIN st.stakeholders :
                     toLowerCase(st.stakeholders[i].email) = cleanEmail}
    IN  IF cleanEmail = <<>> /\ found = {}
        THEN LET s == [id |-> id,
                       displayName |-> IF cleanName # <<>> THEN cleanName
                                       ELSE <<"Unknown Stakeholder">>,
                       email |-> <<>>, tags |-> <<>>, createdAt |-> t, updatedAt |-> t,
                       lastInteractionAt |-> Undefined, notes |-> <<>>]
             IN  [state |-> [st EXCEPT !.stakeholders = <<s>> \o st.stakeholders],
                  stakeholder |-> s]
        ELSE IF found # {}
        THEN LET existing == st.stakeholders[CHOOSE i \in found : \A j \in found : i <= j]
                 updated == [existing EXCEPT
                                !.displayName = IF cleanName # <<>> THEN cleanName
                                                ELSE existing.displayName,
                                !.updatedAt = t]
             IN  [state |-> [st EXCEPT !.stakeholders =
                                [i \in DOMAIN st.stakeholders |->
                                    IF st.stakeholders[i].id = existing.id THEN updated
                                    ELSE st.stakeholders[i]]],
                  stakeholder |-> updated]
        ELSE LET s == [id |-> id,
                       displayName |-> IF cleanName # <<>> THEN cleanName ELSE cleanEmail,
                       email |-> cleanEmail, tags |-> <<>>, createdAt |-> t, updatedAt |-> t,
                       lastInteractionAt |-> Undefined, notes |-> <<>>]
             IN  [state |-> [st EXCEPT !.stakeholders = <<s>> \o st.stakeholders],
                  stakeholder |-> s]

\* upsertStakeholderByEmail: the state and the stakeholder it returns
upsertStakeholderByEmail(st, email, displayName, id, t) ==
    LET cleanEmail == cleanEmailOf(email)
        cleanName == trim(displayName)
        found == {i \in DOMAIN st.stakeholders :
                     toLowerCase(st.stakeholders[i].email) = cleanEmail}
    IN  IF cleanEmail = <<>>
        THEN LET s == [id |-> id,
                       displayName |-> IF cleanName # <<>> THEN cleanName
                                       ELSE <<"Unknown Stakeholder">>,
                       email |-> <<>>, tags |-> <<>>, createdAt |-> t, updatedAt |-> t,
                       lastInteractionAt |-> Undefined, notes |-> <<>>]
             IN  [state |-> [st EXCEPT !.stakeholders = <<s>> \o st.stakeholders],
                  stakeholder |-> s]
        ELSE IF found # {}
        THEN LET existing == st.stakeholders[CHOOSE i \in found : \A j \in found : i <= j]
                 updated == [existing EXCEPT
                                !.displayName = IF cleanName # <<>> THEN cleanName
                                                ELSE existing.displayName,
                                !.updatedAt = t]
             IN  [state |-> [st EXCEPT !.stakeholders =
                                [i \in DOMAIN st.stakeholders |->
                                    IF st.stakeholders[i].id = existing.id THEN updated
                                    ELSE st.stakeholders[i]]],
                  stakeholder |-> updated]
        ELSE LET s == [id |-> id,
                       displayName |-> IF cleanName # <<>> THEN cleanName ELSE cleanEmail,
                       email |-> cleanEmail, tags |-> <<>>, createdAt |-> t, updatedAt |-> t,
                       lastInteractionAt |-> Undefined, notes |-> <<>>]
             IN  [state |-> [st EXCEPT !.stakeholders = <<s>> \o st.stakeholders],
                  stakeholder |-> s]

\* saveState's stamped snapshot; its effects are SaveEffects below
saveState(st, t) == [st EXCEPT !.updatedAt = t]

\* addNote: the snapshot it returns, and whether it reached its saveState call
addNote(st, stakeholderId, noteText, t) ==
    LET clean == trim(noteText)
        stakeholders ==
            [i \in DOMAIN st.stakeholders |->
                IF st.stakeholders[i].id # stakeholderId THEN st.stakeholders[i]
                ELSE [st.stakeholders[i] EXCEPT
                         !.updatedAt = t,
                         !.notes = <<[at |-> t, text |-> clean]>> \o @]]
    IN  IF clean = <<>>
        THEN [state |-> st, saved |-> FALSE]
        ELSE [state |-> saveState([st EXCEPT !.stakeholders = stakeholders], t),
              saved |-> TRUE]

\* an addInteraction that puts the new record at the end of the log
addInteractionAtEnd(st, interaction, id, t) ==
    LET full == [interaction EXCEPT !.id = id]
        at == full.at
        stakeholders ==
            [i \in DOMAIN st.stakeholders |->
                IF st.stakeholders[i].id \notin Range(full.participantIds)
                THEN st.stakeholders[i]
                ELSE [st.stakeholders[i] EXCEPT !.lastInteractionAt = at, !.updatedAt = t]]
    IN  saveState([st EXCEPT !.stakeholders = stakeholders,
                             !.interactions = st.interactions \o <<full>>], t)

\* an addInteraction that marks every stakeholder once any participant is listed
addInteractionTouchAll(st, interaction, id, t) ==
    LET full == [interaction EXCEPT !.id = id]
        at == full.at
        stakeholders ==
            [i \in DOMAIN st.stakeholders |->
                IF full.participantIds = <<>>
                THEN st.stakeholders[i]
                ELSE [st.stakeholders[i] EXCEPT !.lastInteractionAt = at, !.updatedAt = t]]
    IN  saveState([st EXCEPT !.stakeholders = stakeholders,
                             !.interactions = <<full>> \o st.interactions], t)

\* an addInteraction that keeps one interaction per source item
addInteractionOncePerItem(st, interaction, id, t) ==
    IF /\ "outlookItemId" \in DOMAIN interaction.source
       /\ \E k \in DOMAIN st.interactions :
              /\ "outlookItemId" \in DOMAIN st.interactions[k].source
              /\ st.interactions[k].source.outlookItemId = interaction.source.outlookItemId
    THEN st
    ELSE saveState([st EXCEPT !.interactions =
                                  <<[interaction EXCEPT !.id = id]>> \o st.interactions], t)

\* addInteraction: the snapshot it returns (always through saveState)
addInteraction(st, interaction, id, t) ==
    LET full == [interaction EXCEPT !.id = id]
        at == full.at
        stakeholders ==
            [i \in DOMAIN st.stakeholders |->
                IF st.stakeholders[i].id \notin Range(full.participantIds)
                THEN st.stakeholders[i]
                ELSE [st.stakeholders[i] EXCEPT !.lastInteractionAt = at, !.updatedAt = t]]
    IN  saveState([st EXCEPT !.stakeholders = stakeholders,
                             !.interactions = <<full>> \o st.interactions], t)

----------------------------------------------------------------------------
(* storage.ts: the persistence adapter *)

\* JSON.stringify / JSON.parse: the text keeps the value it was written from, without
\* the property whose value is undefined (a snapshot that was never stamped)
JSONstringify(value) ==
    [json |-> IF "updatedAt" \in DOMAIN value /\ value.updatedAt = Undefined
              THEN [k \in DOMAIN value \ {"updatedAt"} |-> value[k]]
              ELSE value]
JSONparse(text) == text.json

\* JSON.parse throws a SyntaxError on a text that is not JSON
parses(text) == "json" \in DOMAIN text

\* `parsed.stakeholders ?? []` and its siblings
normalize(parsed) ==
    [stakeholders |-> IF "stakeholders" \in DOMAIN parsed THEN parsed.stakeholders ELSE <<>>,
     interactions |-> IF "interactions" \in DOMAIN parsed THEN parsed.interactions ELSE <<>>,
     updatedAt |-> IF "updatedAt" \in DOMAIN parsed THEN parsed.updatedAt ELSE Undefined]

\* What localStorage does on a call: works, refuses writes (quota), or throws on any access
StorageModes == {"ok", "quota", "blocked"}

\* localStorage.setItem inside saveState's try/catch
setItem(slot, text, mode) == IF mode = "ok" THEN text ELSE slot

\* loadState: what it returns and what it leaves in memoryState
loadState(slot, mem, mode) ==
    IF mode # "blocked" /\ slot # Null
    THEN LET normalized == normalize(JSONparse(slot))
         IN  [ret |-> normalized, mem |-> normalized]
    ELSE [ret |-> IF mem # Null THEN mem ELSE [stakeholders |-> <<>>, interactions |-> <<>>,
                                               updatedAt |-> Undefined],
          mem |-> mem]

\* exportState
exportState(slot, mem, mode) == JSONstringify(loadState(slot, mem, mode).ret)

\* an import that takes unreadable input for an empty workspace
importStateLenient(jsonText, t) ==
    IF ~parses(jsonText) \/ JSONparse(jsonText) = Null
    THEN [threw |-> FALSE, ret |-> saveState(normalize([ok |-> TRUE]), t)]
    ELSE [threw |-> FALSE, ret |-> saveState(normalize(JSONparse(jsonText)), t)]

\* importState: JSON.parse throws, or `parsed.stakeholders` throws a TypeError on null,
\* or the normalized value goes through saveState and is returned
importState(jsonText, t) ==
    IF ~parses(jsonText) \/ JSONparse(jsonText) = Null
    THEN [threw |-> TRUE]
    ELSE [threw |-> FALSE, ret |-> saveState(normalize(JSONparse(jsonText)), t)]

\* The body of pushStateToServer's PUT
pushStateToServer(stamped) == [state |-> stamped]

\* loadStateFromServer on the response body `data` (Null: fetch threw or !res.ok)
loadStateFromServer(data) ==
    IF data = Null THEN Null
    ELSE IF "state" \notin DOMAIN data \/ data.state = Null THEN Null
    ELSE normalize(data.state)

\* The remote copy: GET /api/state answers { state? }, PUT /api/state replaces it
serverGet(remote) == IF remote = Null THEN [ok |-> TRUE] ELSE [state |-> remote]
serverPut(remote, body) == body.state

----------------------------------------------------------------------------
(* outlookExport.ts: the inclusion predicate *)

InternalDomain == <<"b", "c", "g", ".", "c", "o", "m">>

\* String.prototype.includes for one character
includes(str, c) == \E i \in DOMAIN str : str[i] = c

\* e.split("@").pop(): the text after the last "@"
afterLastAt(e) ==
    LET k == CHOOSE i \in DOMAIN e : e[i] = "@" /\ \A j \in DOMAIN e : e[j] = "@" => j <= i
    IN  SubSeq(e, k + 1, Len(e))

\* String.prototype.endsWith
endsWith(str, suffix) ==
    /\ Len(suffix) <= Len(str)
    /\ SubSeq(str, Len(str) - Len(suffix) + 1, Len(str)) = suffix

\* an inclusion predicate that knows the internal domain but not its subdomains
isExternalEmailExactDomain(email) ==
    LET e == toLowerCase(trim(email))
    IN  /\ e # <<>>
        /\ includes(e, "@")
        /\ afterLastAt(e) # InternalDomain

isExternalEmail(email) ==
    LET e == toLowerCase(trim(email))
    IN  /\ e # <<>>
        /\ includes(e, "@")
        /\ LET domain == afterLastAt(e)
           IN  ~(domain = InternalDomain \/ endsWith(domain, <<".">> \o InternalDomain))

----------------------------------------------------------------------------
(* outlookExport.ts: the inbox importer, from the rows Papa.parse returned.  A row maps
   its headers to the text of its cells; a date cell holds the digits of its time. *)

\* .replace(/\s+/g, " ")
RECURSIVE collapseWhiteSpace(_)
collapseWhiteSpace(str) ==
    IF str = <<>> THEN <<>>
    ELSE IF Head(str) \in WhiteSpace THEN <<" ">> \o collapseWhiteSpace(trimStart(str))
    ELSE <<Head(str)>> \o collapseWhiteSpace(Tail(str))

normHeader(h) == collapseWhiteSpace(toLowerCase(trim(h)))

\* the place of the first of the characters in a text that has one
indexOfAny(str, chars) ==
    CHOOSE i \in DOMAIN str : str[i] \in chars /\ \A j \in 1..(i - 1) : str[j] \notin chars

\* String.prototype.split on single characters
RECURSIVE split(_, _)
split(str, separators) ==
    IF \A i \in DOMAIN str : str[i] \notin separators THEN <<str>>
    ELSE <<SubSeq(str, 1, indexOfAny(str, separators) - 1)>>
         \o split(SubSeq(str, indexOfAny(str, separators) + 1, Len(str)), separators)

\* (x.match(/<([^>]+)>/)?.[1] || x).replace(/^"|"$/g, ""): the text between the first
\* "<" that some text and a ">" follow and that ">", or else x, without a quote at
\* either end
addressOf(x) ==
    LET matches == {i \in DOMAIN x : /\ x[i] = "<"
                                     /\ i + 1 \in DOMAIN x /\ x[i + 1] # ">"
                                     /\ \E j \in DOMAIN x : j > i /\ x[j] = ">"}
        first == CHOOSE i \in matches : \A j \in matches : i <= j
        m == IF matches = {} THEN x
             ELSE SubSeq(x, first + 1,
                         first + indexOfAny(SubSeq(x, first + 1, Len(x)), {">"}) - 1)
    IN  SubSeq(m, IF m # <<>> /\ m[1] = "\"" THEN 2 ELSE 1,
                  IF Len(m) > 1 /\ m[Len(m)] = "\"" THEN Len(m) - 1 ELSE Len(m))

splitEmails(v) ==
    IF trim(v) = <<>> THEN <<>>
    ELSE LET parts == split(trim(v), {";", ",", "\n"})
             kept == SelectSeq([i \in DOMAIN parts |-> trim(parts[i])], LAMBDA x : x # <<>>)
         IN  [i \in DOMAIN kept |-> addressOf(kept[i])]

\* one loop of pick: the first candidate whose column the row fills (<<>>: undefined)
RECURSIVE pickIn(_, _, _)
pickIn(row, keys, candidates) ==
    IF candidates = <<>> THEN <<>>
    ELSE LET filled == {k \in keys : /\ normHeader(k) = normHeader(Head(candidates))
                                     /\ trim(row[k]) # <<>>}
         IN  IF filled # {} THEN row[CHOOSE k \in filled : TRUE]
             ELSE pickIn(row, keys, Tail(candidates))

\* pick: by the headers of the first row, then by the row's own
pick(row, headers, candidates) ==
    IF pickIn(row, headers \cap DOMAIN row, candidates) # <<>>
    THEN pickIn(row, headers \cap DOMAIN row, candidates)
    ELSE pickIn(row, DOMAIN row, candidates)

\* the headers pick is asked for, field by field
Columns ==
    [subject |->
        <<<<"S", "u", "b", "j", "e", "c", "t">>,
          <<"s", "u", "b", "j", "e", "c", "t">>>>,
     from |->
        <<<<"F", "r", "o", "m">>,
          <<"S", "e", "n", "d", "e", "r">>,
          <<"F", "r", "o", "m", " ", "(", "N", "a", "m", "e", ")">>,
          <<"F", "r", "o", "m", ":", " ", "(", "N", "a", "m", "e", ")">>>>,
     fromEmail |->
        <<<<"F", "r", "o", "m", " ", "(", "A", "d", "d", "r", "e", "s", "s", ")">>,
          <<"F", "r", "o", "m", ":", " ", "(", "A", "d", "d", "r", "e", "s", "s", ")">>,
          <<"S", "e", "n", "d", "e", "r", " ", "A", "d", "d", "r", "e", "s", "s">>,
          <<"F", "r", "o", "m", " ", "A", "d", "d", "r", "e", "s", "s">>,
          <<"E", "-", "m", "a", "i", "l", " ", "A", "d", "d", "r", "e", "s", "s">>,
          <<"E", "m", "a", "i", "l", " ", "A", "d", "d", "r", "e", "s", "s">>>>,
     to |->
        <<<<"T", "o">>,
          <<"T", "o", ":", " ", "(", "N", "a", "m", "e", ")">>,
          <<"T", "o", " ", "(", "N", "a", "m", "e", ")">>,
          <<"T", "o", " ", "R", "e", "c", "i", "p", "i", "e", "n", "t", "s">>>>,
     cc |->
        <<<<"C", "c">>,
          <<"C", "C">>,
          <<"C", "c", ":", " ", "(", "N", "a", "m", "e", ")">>,
          <<"C", "c", " ", "(", "N", "a", "m", "e", ")">>>>,
     received |->
        <<<<"R", "e", "c", "e", "i", "v", "e", "d">>,
          <<"R", "e", "c", "e", "i", "v", "e", "d", " ", "T", "i", "m", "e">>,
          <<"R", "e", "c", "e", "i", "v", "e", "d", " ", "D", "a", "t", "e">>,
          <<"D", "a", "t", "e", "/", "T", "i", "m", "e", " ", "S", "e", "n", "t">>,
          <<"S", "e", "n", "t">>,
          <<"S", "e", "n", "t", " ", "T", "i", "m", "e">>>>,
     body |->
        <<<<"B", "o", "d", "y">>,
          <<"B", "o", "d", "y", " ", "P", "r", "e", "v", "i", "e", "w">>,
          <<"B", "o", "d", "y", "P", "r", "e", "v", "i", "e", "w">>,
          <<"P", "r", "e", "v", "i", "e", "w">>>>]

\* the time a date cell of digits stands for
RECURSIVE parseDigits(_)
parseDigits(str) ==
    IF str = <<>> THEN 0
    ELSE 10 * parseDigits(SubSeq(str, 1, Len(str) - 1))
         + (CHOOSE d \in 0..9 : Digits[d + 1] = str[Len(str)])

emailOfRow(row, headers, idx) ==
    [id |-> <<"email-">> \o toString(idx),
     subject |-> pick(row, headers, Columns.subject),
     receivedDateTime |-> IF pick(row, headers, Columns.received) = <<>> THEN Undefined
                          ELSE parseDigits(pick(row, headers, Columns.received)),
     bodyPreview |-> slice(pick(row, headers, Columns.body), 500),
     from |-> IF pick(row, headers, Columns.fromEmail) # <<>>
                 \/ pick(row, headers, Columns.from) # <<>>
              THEN [name |-> pick(row, headers, Columns.from),
                    address |-> pick(row, headers, Columns.fromEmail)]
              ELSE Null,
     to |-> [i \in DOMAIN splitEmails(pick(row, headers, Columns.to)) |->
                [address |-> splitEmails(pick(row, headers, Columns.to))[i]]],
     cc |-> [i \in DOMAIN splitEmails(pick(row, headers, Columns.cc)) |->
                [address |-> splitEmails(pick(row, headers, Columns.cc))[i]]]]

\* new Date(cell).toISOString() throws a RangeError on a cell that is no date
throwsOn(rows) ==
    \E idx \in DOMAIN rows :
        \E i \in DOMAIN pick(rows[idx], DOMAIN rows[1], Columns.received) :
            pick(rows[idx], DOMAIN rows[1], Columns.received)[i] \notin Range(Digits)

\* importOutlookEmailCsv: it rejects, or resolves with the records
importOutlookEmailCsv(rows) ==
    IF rows = <<>> THEN [rejected |-> FALSE, records |-> <<>>]
    ELSE IF throwsOn(rows) THEN [rejected |-> TRUE]
    ELSE [rejected |-> FALSE,
          records |-> [idx \in DOMAIN rows |-> emailOfRow(rows[idx], DOMAIN rows[1], idx)]]

----------------------------------------------------------------------------
(* onenote.ts: captureFromOneNotePage, from the page OneNote.run returned *)

\* /[A-Z0-9._%+-]+@[A-Z0-9.-]+\.[A-Z]{2,}/gi: its three character classes
EmailRegex ==
    [local |-> Range(UpperCase) \cup Range(LowerCase) \cup Range(Digits)
               \cup {".", "_", "%", "+", "-"},
     domain |-> Range(UpperCase) \cup Range(LowerCase) \cup Range(Digits) \cup {".", "-"},
     tld |-> Range(UpperCase) \cup Range(LowerCase)]

\* how many characters of a class follow one another from place i on
runLength(text, i, chars) ==
    IF \A j \in i..Len(text) : text[j] \in chars THEN Len(text) - i + 1
    ELSE (CHOOSE j \in i..Len(text) :
              text[j] \notin chars /\ \A k \in i..(j - 1) : text[k] \in chars) - i

\* where the match that starts at place i ends (0: none starts there): the local part
\* runs up to an "@", and the domain ends with the last dot of its run that two
\* letters follow, and with the letters after it
matchEnd(text, i) ==
    LET at == i + runLength(text, i, EmailRegex.local)
        dots == {q \in (at + 2)..(at + runLength(text, at + 1, EmailRegex.domain)) :
                    text[q] = "." /\ runLength(text, q + 1, EmailRegex.tld) >= 2}
        dot == CHOOSE q \in dots : \A p \in dots : p <= q
    IN  IF at = i \/ at > Len(text) THEN 0
        ELSE IF text[at] # "@" \/ dots = {} THEN 0
        ELSE dot + runLength(text, dot + 1, EmailRegex.tld)

\* text.match(emailRegex) || []: the matches from a place on, left to right
RECURSIVE matchAll(_, _)
matchAll(text, from) ==
    LET starts == {i \in from..Len(text) : matchEnd(text, i) # 0}
        start == CHOOSE i \in starts : \A j \in starts : i <= j
    IN  IF starts = {} THEN <<>>
        ELSE <<SubSeq(text, start, matchEnd(text, start))>>
             \o matchAll(text, matchEnd(text, start) + 1)

\* Array.from(new Set(emails)): the first occurrence of each
RECURSIVE deduped(_)
deduped(emails) ==
    IF emails = <<>> THEN <<>>
    ELSE IF emails[Len(emails)] \in Range(SubSeq(emails, 1, Len(emails) - 1))
    THEN deduped(SubSeq(emails, 1, Len(emails) - 1))
    ELSE Append(deduped(SubSeq(emails, 1, Len(emails) - 1)), emails[Len(emails)])

captureFromOneNotePage(page) ==
    [host |-> "OneNote",
     pageId |-> page.id,
     title |-> IF page.title # <<>> THEN page.title ELSE <<"(untitled page)">>,
     extractedEmails |->
         deduped([i \in DOMAIN matchAll(page.text, 1) |->
                     toLowerCase(matchAll(page.text, 1)[i])]),
     extractedTextSample |-> slice(trim(page.text), 500)]

----------------------------------------------------------------------------
(* taskpane.tsx: the ingestion handlers, from the point where their await returned.
   Each takes the snapshot `st` the handler starts from, what the collaborator
   returned, the host, the next uuid and the clock, and yields the snapshot it hands
   to setState (working), every snapshot it passed through saveState (saves) and
   the next unused uuid. *)

BatchCap == 200

\* what a handler hands over: its working snapshot, the snapshots saveState saw, the next uuid
handover(w, saves, nid) == [working |-> w, saves |-> Append(saves, w), nextId |-> nid]

\* the body of `for (const em of participantEmails)`; r is what upsertStakeholderByEmail
\* returned, and uuidv4() was called only when it created a stakeholder
upsertParticipant(acc, em, r) ==
    IF ~isExternalEmail(em) THEN acc
    ELSE [working |-> r.state,
          participantIds |-> Append(acc.participantIds, r.stakeholder.id),
          nextId |-> IF Len(r.state.stakeholders) > Len(acc.working.stakeholders)
                     THEN acc.nextId + 1 ELSE acc.nextId]

RECURSIVE upsertParticipants(_, _, _)
upsertParticipants(acc, emails, t) ==
    IF emails = <<>> THEN acc
    ELSE upsertParticipants(
             upsertParticipant(acc, Head(emails),
                 upsertStakeholderByEmail(acc.working, Head(emails), Head(emails),
                                          acc.nextId, t)),
             Tail(emails), t)

participantsOf(st, emails, nid, t) ==
    upsertParticipants([working |-> st, participantIds |-> <<>>, nextId |-> nid], emails, t)

\* .filter(Boolean)
filterBoolean(strs) == SelectSeq(strs, LAMBDA x : x # <<>>)

addresses(list) == [i \in DOMAIN list |-> list[i].address]

emailParticipants(e) ==
    filterBoolean((IF e.from = Null THEN <<>> ELSE <<e.from.address>>)
                  \o addresses(e.to) \o addresses(e.cc))

eventParticipants(ev) ==
    filterBoolean((IF ev.organizer = Null THEN <<>> ELSE <<ev.organizer.address>>)
                  \o addresses(ev.attendees))

emailInteraction(e, up, h, t) ==
    addInteraction(up.working,
        [id |-> Undefined, type |-> "email",
         at |-> IF e.receivedDateTime # Undefined THEN e.receivedDateTime ELSE t,
         title |-> IF e.subject # <<>> THEN e.subject ELSE <<"Email">>,
         summary |-> e.bodyPreview,
         participantIds |-> up.participantIds,
         source |-> [host |-> h, outlookItemId |-> e.id],
         suggestedNextActions |->
             <<"Send follow-up", "Confirm next steps", "Schedule check-in">>],
        up.nextId, t)

eventInteraction(ev, up, h, t) ==
    addInteraction(up.working,
        [id |-> Undefined, type |-> "meeting",
         at |-> IF ev.start # Undefined THEN ev.start ELSE t,
         title |-> IF ev.subject # <<>> THEN ev.subject ELSE <<"Meeting">>,
         summary |-> ev.bodyPreview,
         participantIds |-> up.participantIds,
         source |-> [host |-> h, outlookItemId |-> ev.id],
         suggestedNextActions |-> <<"Confirm decisions", "Send recap", "Assign owners">>],
        up.nextId, t)

\* one pass of `for (const e of emails.slice(0, 200))`, after its participants were
\* upserted (up); w is the snapshot addInteraction returns if the record is not skipped
importRecord(acc, rec, up, w) ==
    IF rec.subject = <<>> /\ rec.bodyPreview = <<>> /\ up.participantIds = <<>>
    THEN [acc EXCEPT !.working = up.working, !.nextId = up.nextId]
    ELSE handover(w, acc.saves, up.nextId + 1)

importEmailRecord(acc, e, up, h, t) == importRecord(acc, e, up, emailInteraction(e, up, h, t))

importEventRecord(acc, ev, up, h, t) == importRecord(acc, ev, up, eventInteraction(ev, up, h, t))

\* the loop over the records, in order: the first half of the list, then the rest
\* (acc is read first, so that a half is finished before the next one starts)
RECURSIVE importEmailRecords(_, _, _, _)
importEmailRecords(acc, emails, h, t) ==
    IF acc.nextId < 0 \/ emails = <<>> THEN acc
    ELSE IF Len(emails) = 1
    THEN importEmailRecord(acc, emails[1],
             participantsOf(acc.working, emailParticipants(emails[1]), acc.nextId, t),
             h, t)
    ELSE importEmailRecords(
             importEmailRecords(acc, SubSeq(emails, 1, Len(emails) \div 2), h, t),
             SubSeq(emails, (Len(emails) \div 2) + 1, Len(emails)), h, t)

RECURSIVE importEventRecords(_, _, _, _)
importEventRecords(acc, evs, h, t) ==
    IF acc.nextId < 0 \/ evs = <<>> THEN acc
    ELSE IF Len(evs) = 1
    THEN importEventRecord(acc, evs[1],
             participantsOf(acc.working, eventParticipants(evs[1]), acc.nextId, t),
             h, t)
    ELSE importEventRecords(
             importEventRecords(acc, SubSeq(evs, 1, Len(evs) \div 2), h, t),
             SubSeq(evs, (Len(evs) \div 2) + 1, Len(evs)), h, t)

\* the summary note that closes an import of n records
summaryNote(acc, title, what, n, h, t) ==
    handover(addInteraction(acc.working,
                 [id |-> Undefined, type |-> "note", at |-> t,
                  title |-> title,
                  summary |-> <<"Imported ">> \o toString(n) \o what,
                  participantIds |-> <<>>,
                  source |-> [host |-> h]],
                 acc.nextId, t),
             acc.saves, acc.nextId + 1)

importOutlookEmailExport(st, emails, h, nid, t) ==
    summaryNote(importEmailRecords([working |-> st, saves |-> <<>>, nextId |-> nid],
                                   slice(emails, BatchCap), h, t),
                <<"Outlook Inbox export imported">>, <<" emails from CSV.">>,
                Len(emails), h, t)

importOutlookCalendarExport(st, evs, h, nid, t) ==
    summaryNote(importEventRecords([working |-> st, saves |-> <<>>, nextId |-> nid],
                                   slice(evs, BatchCap), h, t),
                <<"Outlook Calendar export imported">>, <<" events from CSV.">>,
                Len(evs), h, t)

oneNoteInteraction(capture, up, sample, h, t) ==
    addInteraction(up.working,
        [id |-> Undefined, type |-> "note", at |-> t,
         title |-> IF capture.title # <<>> THEN capture.title ELSE <<"OneNote page">>,
         summary |-> IF sample # <<>> THEN sample
                     ELSE <<"Captured ">> \o toString(Len(up.participantIds))
                          \o <<" external emails from OneNote page.">>,
         participantIds |-> up.participantIds,
         source |-> [host |-> h, onenotePageId |-> capture.pageId],
         suggestedNextActions |->
             <<"Capture decisions", "Assign owners", "Schedule follow-ups">>],
        up.nextId, t)

oneNoteCapture(capture, up, h, t) ==
    handover(oneNoteInteraction(capture, up, trim(capture.extractedTextSample), h, t),
             <<>>, up.nextId + 1)

captureFromOneNote(st, capture, h, nid, t) ==
    oneNoteCapture(capture, participantsOf(st, capture.extractedEmails, nid, t), h, t)

captureFromPowerPoint(st, cap, h, nid, t) ==
    handover(addInteraction(st,
                 [id |-> Undefined, type |-> "note", at |-> t,
                  title |-> <<"PowerPoint slide captured">>,
                  summary |-> slice(cap.slideText, 500),
                  participantIds |-> <<>>,
                  source |-> [host |-> h, powerpointSlideId |-> cap.slideId],
                  suggestedNextActions |->
                      <<"Validate stakeholder reactions", "Adjust storyline", "Prep pre-wires">>],
                 nid, t),
             <<>>, nid + 1)

\* the rows runImpactAnalysisAndRender hands to setImpacts: .map(...).filter(Boolean)
impactRows(stakeholders, impacts) ==
    LET found(r) == {i \in DOMAIN stakeholders : stakeholders[i].id = r.stakeholderId}
        s(r) == stakeholders[CHOOSE i \in found(r) : \A j \in found(r) : i <= j]
        row(r) == IF found(r) = {} THEN Null
                  ELSE [stakeholderId |-> s(r).id,
                        displayName |-> s(r).displayName,
                        email |-> s(r).email,
                        reaction |-> IF r.reaction = "red" THEN "red" ELSE "green",
                        rationale |-> r.rationale]
    IN  SelectSeq([k \in DOMAIN impacts |-> row(impacts[k])], LAMBDA x : x # Null)

\* onAddNote, with the AddNote component's own trim and empty check in front of it
onAddNote(st, selectedId, text, t) ==
    LET typed == trim(text)
        r == addNote(st, selectedId, typed, t)
    IN  IF typed = <<>> THEN [working |-> st, saves |-> <<>>, set |-> FALSE]
        ELSE [working |-> r.state, saves |-> IF r.saved THEN <<r.state>> ELSE <<>>,
              set |-> TRUE]

\* resetState, as confirmResetWorkspace calls it
resetState(t) == saveState([stakeholders |-> <<>>, interactions |-> <<>>, updatedAt |-> t], t)

----------------------------------------------------------------------------
(* taskpane.tsx: syncFromServer after its await *)

\* syncFromServer without its `if (!isActive) return`
syncFromServerLeaked(active, remote, current) ==
    /\ remote # Null
    /\ getStateTimestamp(remote) > getStateTimestamp(current)

\* syncFromServer adopting a remote snapshot that is merely as recent as the local one
syncFromServerNotStrict(active, remote, current) ==
    /\ active
    /\ remote # Null
    /\ getStateTimestamp(remote) >= getStateTimestamp(current)

\* whether syncFromServer calls setState(remote)
syncFromServer(active, remote, current) ==
    /\ active
    /\ remote # Null
    /\ getStateTimestamp(remote) > getStateTimestamp(current)

----------------------------------------------------------------------------
(* What the collaborators return *)

\* the host each surface runs in: the web app and an Office task pane
HostOf == [s \in Surfaces |-> IF s = "s1" THEN "Web" ELSE "PowerPoint"]

AddrA == <<"a", "@", "x">>
AddrInternal == <<"j", "@">> \o InternalDomain

EmailBatches ==
    {<<[id |-> "email-1", subject |-> <<"s">>, from |-> [name |-> <<"A">>, address |-> AddrA],
        to |-> <<[address |-> AddrInternal]>>, cc |-> <<>>,
        receivedDateTime |-> 1, bodyPreview |-> <<>>]>>}

EventBatches ==
    {<<[id |-> "event-1", subject |-> <<"m">>, start |-> MaxTime + 1, end |-> Undefined,
        organizer |-> Null, attendees |-> <<[address |-> AddrA]>>, bodyPreview |-> <<>>]>>}

OneNoteCaptures ==
    {[host |-> "OneNote", pageId |-> "p1", title |-> <<"t">>,
      extractedEmails |-> <<AddrA, AddrInternal>>, extractedTextSample |-> <<>>]}

SlideCaptures == {[slideId |-> "sl1", slideText |-> <<"h", "i">>]}

NoteTexts == {<<"n">>, <<" ">>}

\* The texts of the cells of an inbox export
Cells ==
    [kickoff |-> <<"K", "i", "c", "k", "o", "f", "f">>,
     janeDoe |-> <<"J", "a", "n", "e", " ", "D", "o", "e">>,
     janeAddress |-> <<"j", "a", "n", "e", "@", "a", "c", "m", "e", ".", "c", "o", "m">>,
     janeCapitals |-> <<"J", "a", "n", "e", "@", "A", "C", "M", "E", ".", "c", "o", "m">>,
     janeWithAddress |->
         <<"J", "a", "n", "e", " ", "D", "o", "e", " ", "<", "j", "a", "n", "e", "@",
           "a", "c", "m", "e", ".", "c", "o", "m", ">">>,
     recipients |->
         <<"B", "o", "b", " ", "<", "b", "o", "b", "@", "a", "c", "m", "e", ".", "c",
           "o", "m", ">", ";", " ", "a", "l", "i", "c", "e", "@", "b", "c", "g", ".",
           "c", "o", "m">>]

\* an inbox export with the columns Subject, From and Received, and one row
InboxScenario ==
    <<(Columns.subject[1] :> Cells.kickoff) @@ (Columns.from[1] :> Cells.janeWithAddress)
      @@ (Columns.received[1] :> <<"1">>)>>

\* the inbox exports: no row; the scenario; the sender's name and address in columns
\* of their own, with recipients; a row that is no mail; a body and a copy, twice;
\* a date that is none; a mail whose sender is also its recipient and, in capitals,
\* on its copy line
InboxFiles ==
    {<<>>,
     InboxScenario,
     <<(Columns.subject[1] :> Cells.kickoff) @@ (Columns.from[4] :> Cells.janeDoe)
       @@ (Columns.fromEmail[2] :> Cells.janeAddress) @@ (Columns.to[1] :> Cells.recipients)
       @@ (Columns.received[1] :> <<>>)>>,
     <<(Columns.subject[1] :> <<" ">>) @@ (Columns.to[1] :> <<"j", "@">> \o InternalDomain)>>,
     <<(Columns.body[2] :> <<"b">>) @@ (Columns.cc[2] :> Cells.janeWithAddress),
       (Columns.body[2] :> <<>>) @@ (Columns.cc[2] :> <<>>)>>,
     <<(Columns.subject[1] :> <<>>) @@ (Columns.received[1] :> <<"x">>)>>,
     <<(Columns.subject[1] :> Cells.kickoff) @@ (Columns.fromEmail[1] :> Cells.janeAddress)
       @@ (Columns.to[1] :> Cells.janeWithAddress) @@ (Columns.cc[1] :> Cells.janeCapitals)>>}

\* The pages of a notebook: one that names bob@acme.com twice and alice@bcg.com once,
\* one with an address in capitals, an address of a subdomain and a bare name, and
\* an empty one
PageScenario ==
    [id |-> "p1", title |-> <<"t">>,
     text |->
         <<"b", "o", "b", "@", "a", "c", "m", "e", ".", "c", "o", "m", " ", "b", "o",
           "b", "@", "a", "c", "m", "e", ".", "c", "o", "m", "\n", "a", "l", "i", "c",
           "e", "@", "b", "c", "g", ".", "c", "o", "m", "\n">>]

Pages ==
    {PageScenario,
     [id |-> "p2", title |-> <<>>,
      text |->
          <<"A", "s", "k", " ", "B", "o", "b", "@", "A", "c", "m", "e", ".", "c", "o",
            "m", ",", " ", "d", "a", "n", "@", "e", "u", ".", "b", "c", "g", ".", "c",
            "o", "m", " ", "a", "n", "d", " ", "c", "a", "r", "o", "l", ";", " ", "b",
            "o", "b", "@", "a", "c", "m", "e", ".", "c", "o", "m", ".", "\n">>],
     [id |-> "p3", title |-> <<"t">>, text |-> <<>>]}

\* Exports of any length, as importOutlookEmailCsv and importOutlookCalendarCsv return
\* them: record i is of the kind its place in a repeated pattern gives it.  A record
\* has a subject, a body, an external sender or organizer, an internal recipient or
\* attendee, or nothing; the records after the 200th have a sender of their own.
BatchSizes == {1, BatchCap, BatchCap + 1}

BatchPatterns ==
    {<<"full">>, <<"internal", "subject", "blank">>, <<"blank", "body", "sender">>}

AddrLate == <<"z", "@", "x">>

EmailOfKind(kind, i) ==
    [id |-> <<"email-">> \o toString(i),
     subject |-> IF kind \in {"full", "subject"} THEN <<"s">> ELSE <<>>,
     from |-> IF kind \in {"full", "sender"}
              THEN [name |-> <<>>, address |-> IF i > BatchCap THEN AddrLate ELSE AddrA]
              ELSE Null,
     to |-> IF kind = "internal" THEN <<[address |-> AddrInternal]>> ELSE <<>>,
     cc |-> <<>>,
     receivedDateTime |-> 1,
     bodyPreview |-> IF kind = "body" THEN <<"b">> ELSE <<>>]

EventOfKind(kind, i) ==
    [id |-> <<"event-">> \o toString(i),
     subject |-> IF kind \in {"full", "subject"} THEN <<"m">> ELSE <<>>,
     start |-> MaxTime + 1, end |-> Undefined,
     organizer |-> IF kind \in {"full", "sender"}
                   THEN [name |-> <<>>, address |-> IF i > BatchCap THEN AddrLate ELSE AddrA]
                   ELSE Null,
     attendees |-> IF kind = "internal" THEN <<[address |-> AddrInternal]>> ELSE <<>>,
     bodyPreview |-> IF kind = "body" THEN <<"b">> ELSE <<>>]

EmailBatch(n, pattern) ==
    [i \in 1..n |-> EmailOfKind(pattern[((i - 1) % Len(pattern)) + 1], i)]
EventBatch(n, pattern) ==
    [i \in 1..n |-> EventOfKind(pattern[((i - 1) % Len(pattern)) + 1], i)]

\* the buttons each host shows
FlowKinds(h) ==
    (IF h = "OneNote" THEN {"captureFromOneNote"} ELSE {})
    \cup (IF h = "PowerPoint" THEN {"captureFromPowerPoint"} ELSE {})
    \cup {"importOutlookEmailExport", "importOutlookCalendarExport"}

FlowInputs(kind) ==
    CASE kind = "captureFromOneNote" -> OneNoteCaptures
      [] kind = "captureFromPowerPoint" -> SlideCaptures
      [] kind = "importOutlookEmailExport" -> EmailBatches
      [] kind = "importOutlookCalendarExport" -> EventBatches

RunFlow(kind, st, input, h, nid, t) ==
    CASE kind = "captureFromOneNote" -> captureFromOneNote(st, input, h, nid, t)
      [] kind = "captureFromPowerPoint" -> captureFromPowerPoint(st, input, h, nid, t)
      [] kind = "importOutlookEmailExport" -> importOutlookEmailExport(st, input, h, nid, t)
      [] kind = "importOutlookCalendarExport" -> importOutlookCalendarExport(st, input, h, nid, t)

\* the awaits that can reject: the CSV parsers and the slide reader
CanThrow(kind) == kind # "captureFromOneNote"

\* an id no stakeholder has
UnknownId == 99

\* Snapshots as a file or the remote copy may hold them: every timestamp may be absent,
\* be no date (-1) or be an instant; a stakeholder may have a note and a last contact
\* later than every other timestamp
Snapshots ==
    LET stakeholder(c, u, l) ==
            [id |-> 1, displayName |-> <<"A">>, email |-> AddrA, tags |-> <<>>,
             notes |-> IF l = Undefined THEN <<>>
                       ELSE <<[id |-> 2, createdAt |-> l, text |-> <<"n">>]>>,
             createdAt |-> c, updatedAt |-> u, lastInteractionAt |-> l]
        interaction(a) ==
            [id |-> 3, type |-> "note", at |-> a, title |-> <<"t">>, summary |-> <<>>,
             participantIds |-> <<>>, source |-> [host |-> "Web"]]
    IN  {[stakeholders |-> ss, interactions |-> is, updatedAt |-> u] :
            u \in {Undefined, -1, 3},
            ss \in {<<>>} \cup {<<stakeholder(c, v, l)>> :
                                   c \in {Undefined, -1, 1, 4}, v \in {Undefined, 2},
                                   l \in {Undefined, 9}},
            is \in {<<>>, <<interaction(6), interaction(1)>>}
                   \cup {<<interaction(a)>> : a \in {Undefined, -1, 6}}}

\* The answers of the impact analysis: no impacts at all, or up to two entries that
\* name a stakeholder, known or not, with a reaction in any spelling
ImpactResponses ==
    LET entries == {[stakeholderId |-> id, reaction |-> reaction, rationale |-> <<"r">>] :
                        id \in {1, 2, UnknownId}, reaction \in {"red", "green", "Red"}}
    IN  {[raw |-> <<"{", "}">>]} \cup {[impacts |-> <<>>]}
        \cup {[impacts |-> <<e>>] : e \in entries}
        \cup {[impacts |-> <<e1, e2>>] : e1 \in entries, e2 \in entries}

----------------------------------------------------------------------------
(* History *)

Content(st) == <<st.stakeholders, st.interactions>>

\* the ids a snapshot holds
StakeholderIds(st) == {x.id : x \in Range(st.stakeholders)}
InteractionIds(st) == {x.id : x \in Range(st.interactions)}

\* the sequence number of the mutation that produced this content (0: never mutated)
LastMut(st) == MaxOf({h.seq : h \in {g \in hist : g.content = Content(st)}})

\* the snapshot most recently handed to setState on a surface
Latest(s) == IF pending[s] # <<>> THEN pending[s][Len(pending[s])] ELSE state[s]

\* the handlers suspended at an await, over all surfaces
Suspended == UNION {{<<s, f>> : f \in flows[s]} : s \in Surfaces}

MutBudget == mutSeq + Cardinality(Suspended) < MaxMut

----------------------------------------------------------------------------
(* Actions *)

Init ==
    /\ now = 1
    /\ nextId = 1
    /\ mutSeq = 0
    /\ hist = {}
    /\ host = [s \in Surfaces |-> "Unknown"]
    /\ isActive = [s \in Surfaces |-> FALSE]
    /\ state = [s \in Surfaces |-> EmptyState]
    /\ stateRef = [s \in Surfaces |-> EmptyState]
    /\ pending = [s \in Surfaces |-> <<>>]
    /\ flows = [s \in Surfaces |-> {}]
    /\ pull = [s \in Surfaces |-> Null]
    /\ memoryState = [s \in Surfaces |-> Null]
    /\ localStorage = [s \in Surfaces |-> Null]
    /\ server = Null
    /\ pushes = EmptyBag
    /\ snap = EmptyState
    /\ last = [op |-> "init", n |-> 0, saved |-> Null, durable |-> TRUE]

\* saveState's effects on a surface, for every snapshot a handler passed through it
SaveEffects(s, saves, mode) ==
    /\ memoryState' = [memoryState EXCEPT ![s] = saves[Len(saves)]]
    /\ localStorage' = [localStorage EXCEPT
                            ![s] = setItem(@, JSONstringify(saves[Len(saves)]), mode)]
    /\ pushes' = pushes (+) BagOfSeq([i \in DOMAIN saves |-> pushStateToServer(saves[i])])
    /\ BagCardinality(pushes') <= MaxInFlight

\* a mutation is recorded with the contents it produced
Record(saves) ==
    /\ mutSeq' = mutSeq + 1
    /\ hist' = hist \cup {[content |-> Content(saves[i]), seq |-> mutSeq + 1] : i \in DOMAIN saves}

Tick ==
    /\ now < MaxTime
    /\ now' = now + 1
    /\ UNCHANGED <<nextId, mutSeq, hist, host, isActive, state, stateRef, pending, flows,
                   pull, memoryState, localStorage, server, pushes, snap, last>>

\* root.render(<App />): useState(() => loadState()), then the mount effects
Mount(s, mode) ==
    /\ ~isActive[s]
    /\ host[s] = "Unknown"
    /\ LET ld == loadState(localStorage[s], memoryState[s], mode)
       IN  /\ state' = [state EXCEPT ![s] = ld.ret]
           /\ stateRef' = [stateRef EXCEPT ![s] = ld.ret]
           /\ SaveEffects(s, <<saveState(ld.ret, now)>>, mode)
    /\ host' = [host EXCEPT ![s] = HostOf[s]]
    /\ isActive' = [isActive EXCEPT ![s] = TRUE]
    /\ pending' = [pending EXCEPT ![s] = <<>>]
    /\ last' = [op |-> "Mount"]
    /\ UNCHANGED <<now, nextId, mutSeq, hist, flows, pull, server, snap>>

\* the effect cleanup: isActive = false, clearInterval
Unmount(s) ==
    /\ isActive[s]
    /\ isActive' = [isActive EXCEPT ![s] = FALSE]
    /\ pull' = [pull EXCEPT ![s] = IF @ = Null THEN Null ELSE [@ EXCEPT !.active = FALSE]]
    /\ flows' = [flows EXCEPT ![s] = {[f EXCEPT !.active = FALSE] : f \in @}]
    /\ pending' = [pending EXCEPT ![s] = <<>>]
    /\ last' = [op |-> "Unmount"]
    /\ UNCHANGED <<now, nextId, mutSeq, hist, host, state, stateRef, memoryState,
                   localStorage, server, pushes, snap>>

\* an ingestion handler runs up to its await; `working = state` will read this render's state
FlowStart(s, kind) ==
    /\ isActive[s]
    /\ kind \in FlowKinds(host[s])
    /\ Cardinality(flows[s]) < MaxFlows
    /\ MutBudget
    /\ flows' = [flows EXCEPT ![s] = @ \cup {[kind |-> kind, st |-> state[s], active |-> TRUE]}]
    /\ last' = [op |-> "FlowStart"]
    /\ UNCHANGED <<now, nextId, mutSeq, hist, host, isActive, state, stateRef, pending,
                   pull, memoryState, localStorage, server, pushes, snap>>

\* what a handler that ran to its end leaves behind: r is what it handed over
FlowEffects(s, f, r, mode) ==
    /\ SaveEffects(s, r.saves, mode)
    /\ Record(r.saves)
    /\ nextId' = r.nextId
    /\ pending' = [pending EXCEPT ![s] = IF f.active THEN <<r.working>> ELSE @]
    /\ last' = [op |-> "FlowResume", s |-> s, from |-> f.st,
                latest |-> Latest(s), working |-> r.working]

\* the await returns: the handler runs from `let working = state` to its setState(working)
FlowResume(s, f, input, mode) ==
    /\ f \in flows[s]
    /\ input \in FlowInputs(f.kind)
    /\ FlowEffects(s, f, RunFlow(f.kind, f.st, input, host[s], nextId, now), mode)
    /\ flows' = [flows EXCEPT ![s] = @ \ {f}]
    /\ UNCHANGED <<now, host, isActive, state, stateRef, pull, server, snap>>

\* the await rejects: the handler's catch shows an error and nothing else
FlowFail(s, f) ==
    /\ f \in flows[s]
    /\ CanThrow(f.kind)
    /\ flows' = [flows EXCEPT ![s] = @ \ {f}]
    /\ last' = [op |-> "FlowFail"]
    /\ UNCHANGED <<now, nextId, mutSeq, hist, host, isActive, state, stateRef, pending,
                   pull, memoryState, localStorage, server, pushes, snap>>

\* a React render of pending setState calls, with the effects that depend on [state]
Render(s, mode) ==
    /\ isActive[s]
    /\ pending[s] # <<>>
    /\ LET new == pending[s][Len(pending[s])]
       IN  /\ state' = [state EXCEPT ![s] = new]
           /\ stateRef' = [stateRef EXCEPT ![s] = new]
           /\ SaveEffects(s, <<saveState(new, now)>>, mode)
    /\ pending' = [pending EXCEPT ![s] = <<>>]
    /\ last' = [op |-> "Render"]
    /\ UNCHANGED <<now, nextId, mutSeq, hist, host, isActive, flows, pull, server, snap>>

\* the Add button: a click handler, rendered and its effects flushed before anything else runs
AddNoteClick(s, sid, text, mode) ==
    /\ isActive[s]
    /\ sid \in {x.id : x \in Range(state[s].stakeholders)}
    /\ MutBudget
    /\ LET r == onAddNote(state[s], sid, text, now)
       IN  /\ r.set
           /\ state' = [state EXCEPT ![s] = r.working]
           /\ stateRef' = [stateRef EXCEPT ![s] = r.working]
           /\ SaveEffects(s, r.saves \o <<saveState(r.working, now)>>, mode)
           /\ Record(r.saves)
           /\ last' = [op |-> "AddNoteClick"]
    /\ pending' = [pending EXCEPT ![s] = <<>>]
    /\ UNCHANGED <<now, nextId, host, isActive, flows, pull, server, snap>>

\* confirmResetWorkspace: a click handler on the Web host
ResetClick(s, mode) ==
    /\ isActive[s]
    /\ host[s] = "Web"
    /\ MutBudget
    /\ LET cleared == resetState(now)
       IN  /\ state' = [state EXCEPT ![s] = cleared]
           /\ stateRef' = [stateRef EXCEPT ![s] = cleared]
           /\ SaveEffects(s, <<cleared, saveState(cleared, now)>>, mode)
           /\ Record(<<cleared>>)
    /\ pending' = [pending EXCEPT ![s] = <<>>]
    /\ last' = [op |-> "ResetClick"]
    /\ UNCHANGED <<now, nextId, host, isActive, flows, pull, server, snap>>

\* runImpactAnalysisAndRender is clicked in a render that shows a captured slide, and
\* runs up to its await; the rows will be resolved against this render's state
AnalyzeStart(s) ==
    /\ isActive[s]
    /\ host[s] = "PowerPoint"
    /\ pending[s] = <<>>
    /\ \E g \in hist : \E i \in Range(g.content[2]) : "powerpointSlideId" \in DOMAIN i.source
    /\ \A f \in flows[s] : f.kind # "runImpactAnalysisAndRender"
    /\ Cardinality(flows[s]) < MaxFlows
    /\ flows' = [flows EXCEPT ![s] = @ \cup {[kind |-> "runImpactAnalysisAndRender",
                                              st |-> state[s], active |-> TRUE]}]
    /\ last' = [op |-> "AnalyzeStart"]
    /\ UNCHANGED <<now, nextId, mutSeq, hist, host, isActive, state, stateRef, pending,
                   pull, memoryState, localStorage, server, pushes, snap>>

\* the analysis answers: the handler runs from the answer to setImpacts(rows)
AnalyzeResume(s, f, result) ==
    /\ f \in flows[s]
    /\ f.kind = "runImpactAnalysisAndRender"
    /\ flows' = [flows EXCEPT ![s] = @ \ {f}]
    /\ last' = [op |-> "runImpactAnalysisAndRender", s |-> s, result |-> result,
                current |-> state[s].stakeholders,
                rows |-> impactRows(f.st.stakeholders,
                                    IF "impacts" \in DOMAIN result THEN result.impacts
                                    ELSE <<>>)]
    /\ UNCHANGED <<now, nextId, mutSeq, hist, host, isActive, state, stateRef, pending,
                   pull, memoryState, localStorage, server, pushes, snap>>

\* the files a user can pick for Import JSON: not JSON, `null`, a number, an object
\* without the collections, and the file Export JSON wrote from the durable copy
JsonFiles(s) ==
    {[text |-> <<"{">>],
     JSONstringify(Null),
     JSONstringify([number |-> 42]),
     JSONstringify([stakeholders |-> <<>>]),
     exportState(localStorage[s], memoryState[s], "ok")}

\* handleImportJsonFile on the Web host, from the file's text on: importState, then
\* setState(imported), or the catch and its alert
ImportJsonFile(s, jsonText, mode) ==
    /\ isActive[s]
    /\ host[s] = "Web"
    /\ LET r == importState(jsonText, now)
       IN  IF r.threw
           THEN UNCHANGED <<mutSeq, hist, pending, memoryState, localStorage, pushes>>
           ELSE /\ MutBudget
                /\ SaveEffects(s, <<r.ret>>, mode)
                /\ Record(<<r.ret>>)
                /\ pending' = [pending EXCEPT ![s] = <<r.ret>>]
    /\ last' = [op |-> "ImportJsonFile", s |-> s, text |-> jsonText,
                alert |-> importState(jsonText, now).threw, latest |-> Latest(s)]
    /\ UNCHANGED <<now, nextId, host, isActive, state, stateRef, flows, pull, server, snap>>

\* the interval fires and the GET is answered (ok) or fails
PullStart(s, ok) ==
    /\ isActive[s]
    /\ pull[s] = Null
    /\ pull' = [pull EXCEPT ![s] =
                    [remote |-> loadStateFromServer(IF ok THEN serverGet(server) ELSE Null),
                     active |-> TRUE]]
    /\ last' = [op |-> "PullStart"]
    /\ UNCHANGED <<now, nextId, mutSeq, hist, host, isActive, state, stateRef, pending,
                   flows, memoryState, localStorage, server, pushes, snap>>

\* a pull that keeps the interactions only the local snapshot had
PullResolveMerging(s) ==
    /\ pull[s] # Null
    /\ LET remote == pull[s].remote
           adopt == syncFromServer(pull[s].active, remote, stateRef[s])
       IN  /\ pending' = [pending EXCEPT ![s] =
                   IF adopt
                   THEN <<[remote EXCEPT !.interactions =
                              @ \o SelectSeq(stateRef[s].interactions,
                                             LAMBDA i : i \notin Range(remote.interactions))]>>
                   ELSE @]
           /\ last' = [op |-> "PullResolve", s |-> s, adopt |-> adopt,
                       active |-> pull[s].active, remote |-> remote,
                       ref |-> stateRef[s], latest |-> Latest(s)]
    /\ pull' = [pull EXCEPT ![s] = Null]
    /\ UNCHANGED <<now, nextId, mutSeq, hist, host, isActive, state, stateRef, flows,
                   memoryState, localStorage, server, pushes, snap>>

\* syncFromServer continues after `await loadStateFromServer()`
PullResolve(s) ==
    /\ pull[s] # Null
    /\ LET remote == pull[s].remote
           adopt == syncFromServer(pull[s].active, remote, stateRef[s])
       IN  /\ pending' = [pending EXCEPT ![s] = IF adopt THEN <<remote>> ELSE @]
           /\ last' = [op |-> "PullResolve", s |-> s, adopt |-> adopt,
                       active |-> pull[s].active, remote |-> remote,
                       ref |-> stateRef[s], latest |-> Latest(s)]
    /\ pull' = [pull EXCEPT ![s] = Null]
    /\ UNCHANGED <<now, nextId, mutSeq, hist, host, isActive, state, stateRef, flows,
                   memoryState, localStorage, server, pushes, snap>>

\* a PUT reaches the server
PushDeliver(m) ==
    /\ BagIn(m, pushes)
    /\ server' = serverPut(server, m)
    /\ pushes' = pushes (-) SetToBag({m})
    /\ UNCHANGED <<now, nextId, mutSeq, hist, host, isActive, state, stateRef, pending,
                   flows, pull, memoryState, localStorage, snap, last>>

\* a failed PUT that takes the local write back with it
PushFailRollback(m) ==
    /\ BagIn(m, pushes)
    /\ pushes' = pushes (-) SetToBag({m})
    /\ memoryState' = [s \in Surfaces |-> Null]
    /\ localStorage' = [s \in Surfaces |-> Null]
    /\ UNCHANGED <<now, nextId, mutSeq, hist, host, isActive, state, stateRef, pending,
                   flows, pull, server, snap, last>>

\* a PUT fails (network error, caught and ignored) or is rejected (response ignored)
PushFail(m) ==
    /\ BagIn(m, pushes)
    /\ pushes' = pushes (-) SetToBag({m})
    /\ UNCHANGED <<now, nextId, mutSeq, hist, host, isActive, state, stateRef, pending,
                   flows, pull, memoryState, localStorage, server, snap, last>>

\* The surface that acts in the specifications of one surface
Acting == {"s1"}

\* One surface and the remote copy, with localStorage working: every step of the surface,
\* and every fate of its requests
Next ==
    \/ Tick
    \/ \E s \in Acting : Mount(s, "ok")
    \/ \E s \in Acting : \E kind \in FlowKinds(host[s]) : FlowStart(s, kind)
    \/ \E s \in Acting : \E f \in flows[s] : \E input \in FlowInputs(f.kind) :
           FlowResume(s, f, input, "ok")
    \/ \E s \in Acting : \E f \in flows[s] : FlowFail(s, f)
    \/ \E s \in Acting : Render(s, "ok")
    \/ \E s \in Acting, text \in NoteTexts :
           \E sid \in {x.id : x \in Range(state[s].stakeholders)} :
               AddNoteClick(s, sid, text, "ok")
    \/ \E s \in Acting : ResetClick(s, "ok")
    \/ \E s \in Acting, ok \in BOOLEAN : PullStart(s, ok)
    \/ \E s \in Acting : PullResolve(s)
    \/ \E m \in BagToSet(pushes) : PushDeliver(m)
    \/ \E m \in BagToSet(pushes) : PushFail(m)

Spec == Init /\ [][Next]_vars

\* Two surfaces and the remote copy, every request answered: the web app and a task
\* pane mount and pull, and the task pane captures slides
NextPeers ==
    \/ Tick
    \/ \E s \in Surfaces : Mount(s, "ok")
    \/ mutSeq + Cardinality(Suspended) < MaxPeerMut /\ FlowStart("s2", "captureFromPowerPoint")
    \/ \E f \in flows["s2"] : \E input \in FlowInputs(f.kind) : FlowResume("s2", f, input, "ok")
    \/ \E s \in Surfaces : Render(s, "ok")
    \/ \E s \in Surfaces : PullStart(s, TRUE)
    \/ \E s \in Surfaces : PullResolve(s)
    \/ \E m \in BagToSet(pushes) : PushDeliver(m)

SpecPeers == Init /\ [][NextPeers]_vars

\* The two surfaces of SpecPeers, and the web app is closed at any moment: its effect
\* cleanup runs while the task pane keeps writing
NextTeardown ==
    \/ Tick
    \/ \E s \in Surfaces : Mount(s, "ok")
    \/ \E s \in Acting : Unmount(s)
    \/ mutSeq + Cardinality(Suspended) < MaxPeerMut /\ FlowStart("s2", "captureFromPowerPoint")
    \/ \E f \in flows["s2"] : \E input \in FlowInputs(f.kind) : FlowResume("s2", f, input, "ok")
    \/ \E s \in Surfaces : Render(s, "ok")
    \/ \E s \in Surfaces : PullStart(s, TRUE)
    \/ \E s \in Surfaces : PullResolve(s)
    \/ \E m \in BagToSet(pushes) : PushDeliver(m)

SpecTeardown == Init /\ [][NextTeardown]_vars

\* The Data section of the web app and the remote copy: the workspace is filled by an
\* inbox import, exported, imported from a file and reset, localStorage answering an
\* import in any of its modes
NextWorkspace ==
    \/ Tick
    \/ \E s \in Acting : Mount(s, "ok")
    \/ \E s \in Acting : FlowStart(s, "importOutlookEmailExport")
    \/ \E s \in Acting : \E f \in flows[s] : \E input \in FlowInputs(f.kind) :
           FlowResume(s, f, input, "ok")
    \/ \E s \in Acting : Render(s, "ok")
    \/ \E s \in Acting : ResetClick(s, "ok")
    \/ \E s \in Acting, mode \in StorageModes : \E jsonText \in JsonFiles(s) :
           ImportJsonFile(s, jsonText, mode)
    \/ \E m \in BagToSet(pushes) : PushDeliver(m)
    \/ \E m \in BagToSet(pushes) : PushFail(m)

SpecWorkspace == Init /\ [][NextWorkspace]_vars

\* nowIso() as the days go by: the clock advances without end.  It goes one instant
\* beyond MaxTime; from then on every stamp is counted from one instant later instead,
\* which keeps their order and their distance from now; no stamp may fall onto the
\* absent one.  Nothing is mutated here, so the aggregate stamps are the only ones.
Advance ==
    LET back(st) == IF st = Null \/ "updatedAt" \notin DOMAIN st THEN st
                    ELSE [st EXCEPT !.updatedAt = IF @ = Undefined THEN @ ELSE @ - 1]
        held == {state[s] : s \in Surfaces} \cup {stateRef[s] : s \in Surfaces}
                \cup {memoryState[s] : s \in Surfaces}
                \cup {JSONparse(localStorage[s]) : s \in {x \in Surfaces : localStorage[x] # Null}}
                \cup UNION {Range(pending[s]) : s \in Surfaces}
                \cup {pull[s].remote : s \in {x \in Surfaces : pull[x] # Null}}
                \cup {server} \cup {m.state : m \in BagToSet(pushes)}
    IN  /\ now = MaxTime + 1
        /\ \A st \in held : st # Null /\ "updatedAt" \in DOMAIN st => st.updatedAt # 1
        /\ state' = [s \in Surfaces |-> back(state[s])]
        /\ stateRef' = [s \in Surfaces |-> back(stateRef[s])]
        /\ memoryState' = [s \in Surfaces |-> back(memoryState[s])]
        /\ localStorage' = [s \in Surfaces |->
                                IF localStorage[s] = Null THEN Null
                                ELSE [json |-> back(JSONparse(localStorage[s]))]]
        /\ pending' = [s \in Surfaces |-> [i \in DOMAIN pending[s] |-> back(pending[s][i])]]
        /\ pull' = [s \in Surfaces |->
                        IF pull[s] = Null THEN Null
                        ELSE [pull[s] EXCEPT !.remote = back(@)]]
        /\ server' = back(server)
        /\ pushes' = [m \in {[state |-> back(x.state)] : x \in BagToSet(pushes)} |->
                          CopiesIn(CHOOSE x \in BagToSet(pushes) : [state |-> back(x.state)] = m,
                                   pushes)]
        /\ last' = [op |-> "Advance"]
        /\ UNCHANGED <<now, nextId, mutSeq, hist, host, isActive, flows, snap>>

\* the instant after MaxTime
BeyondMaxTime ==
    /\ now = MaxTime
    /\ now' = now + 1
    /\ UNCHANGED <<nextId, mutSeq, hist, host, isActive, state, stateRef, pending, flows,
                   pull, memoryState, localStorage, server, pushes, snap, last>>

\* Two surfaces and the remote copy for as long as one likes: nothing is ever mutated,
\* every request is answered, the surfaces keep pulling and rendering and the clock
\* keeps advancing
NextQuiet ==
    \/ Tick
    \/ BeyondMaxTime
    \/ Advance
    \/ \E s \in Surfaces : Mount(s, "ok")
    \/ \E s \in Surfaces : Render(s, "ok")
    \/ \E s \in Surfaces : PullStart(s, TRUE)
    \/ \E s \in Surfaces : PullResolve(s)
    \/ \E m \in BagToSet(pushes) : PushDeliver(m)

SpecQuiet ==
    /\ Init /\ [][NextQuiet]_vars
    /\ WF_vars(Tick) /\ WF_vars(BeyondMaxTime) /\ WF_vars(Advance)
    /\ \A s \in Surfaces : WF_vars(Mount(s, "ok")) /\ WF_vars(Render(s, "ok"))
    /\ \A s \in Surfaces : WF_vars(PullStart(s, TRUE)) /\ WF_vars(PullResolve(s))
    /\ WF_vars(\E m \in BagToSet(pushes) : PushDeliver(m))

\* The task pane in PowerPoint: slides are captured, inbox exports imported, and the
\* impact of a slide is analysed while the other handlers go on
NextImpact ==
    \/ Tick
    \/ Mount("s2", "ok")
    \/ \E kind \in {"captureFromPowerPoint", "importOutlookEmailExport"} : FlowStart("s2", kind)
    \/ \E f \in flows["s2"] :
           /\ f.kind # "runImpactAnalysisAndRender"
           /\ \E input \in FlowInputs(f.kind) : FlowResume("s2", f, input, "ok")
    \/ Render("s2", "ok")
    \/ AnalyzeStart("s2")
    \/ \E f \in flows["s2"] : \E result \in ImpactResponses : AnalyzeResume("s2", f, result)
    \/ \E m \in BagToSet(pushes) : PushDeliver(m)

SpecImpact == Init /\ [][NextImpact]_vars

----------------------------------------------------------------------------
(* The batch handlers applied to a snapshot: exports of one record, of BatchCap records
   and of one more are imported one after the other into snap *)

BatchImported(op, batch, participants, r) ==
    /\ snap' = r.working
    /\ nextId' = r.nextId
    /\ last' = [op |-> op, n |-> last.n + 1, before |-> snap, batch |-> batch,
                participants |-> participants]

ImportEmailBatch(n, pattern) ==
    /\ last.n < MaxBatches
    /\ BatchImported("importOutlookEmailExport", EmailBatch(n, pattern),
                     [i \in 1..n |-> emailParticipants(EmailBatch(n, pattern)[i])],
                     importOutlookEmailExport(snap, EmailBatch(n, pattern), "Web", nextId, now))
    /\ UNCHANGED <<now, mutSeq, hist, host, isActive, state, stateRef, pending, flows, pull,
                   memoryState, localStorage, server, pushes>>

ImportEventBatch(n, pattern) ==
    /\ last.n < MaxBatches
    /\ BatchImported("importOutlookCalendarExport", EventBatch(n, pattern),
                     [i \in 1..n |-> eventParticipants(EventBatch(n, pattern)[i])],
                     importOutlookCalendarExport(snap, EventBatch(n, pattern), "Web", nextId,
                                                 now))
    /\ UNCHANGED <<now, mutSeq, hist, host, isActive, state, stateRef, pending, flows, pull,
                   memoryState, localStorage, server, pushes>>

NextBatch ==
    \/ Tick
    \/ \E n \in BatchSizes, pattern \in BatchPatterns : ImportEmailBatch(n, pattern)
    \/ \E n \in BatchSizes, pattern \in BatchPatterns : ImportEventBatch(n, pattern)

SpecBatch == Init /\ [][NextBatch]_vars

----------------------------------------------------------------------------
(* The inbox import, from the rows of the file to the snapshot handed to setState: the
   importer and the batch handler are applied to snap, one file after the other *)

\* the handler's catch when the importer rejected, or its result
CsvImported(op, rows, parsed, r) ==
    /\ snap' = IF parsed.rejected THEN snap ELSE r.working
    /\ nextId' = IF parsed.rejected THEN nextId ELSE r.nextId
    /\ last' = [op |-> op, n |-> last.n + 1, before |-> snap, rows |-> rows,
                parsed |-> parsed]

ImportInboxCsv(rows) ==
    /\ last.n < MaxBatches
    /\ CsvImported("importOutlookEmailExport", rows, importOutlookEmailCsv(rows),
                   IF importOutlookEmailCsv(rows).rejected THEN Null
                   ELSE importOutlookEmailExport(snap, importOutlookEmailCsv(rows).records,
                                                 "Web", nextId, now))
    /\ UNCHANGED <<now, mutSeq, hist, host, isActive, state, stateRef, pending, flows, pull,
                   memoryState, localStorage, server, pushes>>

NextCsv ==
    \/ Tick
    \/ \E rows \in InboxFiles : ImportInboxCsv(rows)

SpecCsv == Init /\ [][NextCsv]_vars

----------------------------------------------------------------------------
(* Every ingestion flow applied to a snapshot: pages are captured, inbox files and
   calendar exports imported, one after the other into snap *)

PageCaptured(page, r) ==
    /\ snap' = r.working
    /\ nextId' = r.nextId
    /\ last' = [op |-> "captureFromOneNote", n |-> last.n + 1, before |-> snap,
                page |-> page]

CapturePage(page) ==
    /\ last.n < MaxBatches
    /\ PageCaptured(page, captureFromOneNote(snap, captureFromOneNotePage(page), "OneNote",
                                             nextId, now))
    /\ UNCHANGED <<now, mutSeq, hist, host, isActive, state, stateRef, pending, flows, pull,
                   memoryState, localStorage, server, pushes>>

NextIngest ==
    \/ Tick
    \/ \E page \in Pages : CapturePage(page)
    \/ \E rows \in InboxFiles : ImportInboxCsv(rows)
    \/ \E pattern \in BatchPatterns : ImportEventBatch(Len(pattern), pattern)

SpecIngest == Init /\ [][NextIngest]_vars

----------------------------------------------------------------------------
(* The storage module called directly: a caller threads a snapshot (snap) through the
   entity store and the persistence adapter of surface s1, localStorage answering each
   call in one of its modes *)

Emails == {AddrA, <<"A", "@", "X">>, <<" ", "a", "@", "x", " ">>, <<>>, <<" ">>}
DisplayNames == {<<>>, <<"B">>}

\* the history every call carries over: the snapshot saveState stamped last, and
\* whether its localStorage write went through
Called(op, saves, mode) ==
    [op |-> op, n |-> last.n + 1,
     saved |-> IF saves = <<>> THEN last.saved ELSE saves[Len(saves)],
     durable |-> IF saves = <<>> THEN last.durable ELSE mode = "ok"]

StoreEffects(saves, mode) ==
    IF saves = <<>> THEN UNCHANGED <<memoryState, localStorage, pushes>>
    ELSE SaveEffects("s1", saves, mode)

Upserted(email, displayName, r) ==
    /\ snap' = r.state
    /\ nextId' = IF Len(r.state.stakeholders) > Len(snap.stakeholders) THEN nextId + 1
                 ELSE nextId
    /\ last' = Called("upsertStakeholderByEmail", <<>>, "ok")
                @@ [before |-> snap, email |-> email, name |-> displayName, t |-> now,
                    ret |-> r.stakeholder]

CallUpsert(email, displayName) ==
    /\ last.n < MaxCalls
    /\ Upserted(email, displayName,
                upsertStakeholderByEmail(snap, email, displayName, nextId, now))
    /\ UNCHANGED <<now, mutSeq, hist, host, isActive, state, stateRef, pending, flows, pull,
                   memoryState, localStorage, server, pushes>>

NoteAdded(sid, text, r, mode) ==
    /\ snap' = r.state
    /\ StoreEffects(IF r.saved THEN <<r.state>> ELSE <<>>, mode)
    /\ last' = Called("addNote", IF r.saved THEN <<r.state>> ELSE <<>>, mode)
                @@ [before |-> snap, id |-> sid, text |-> text]

CallAddNote(sid, text, mode) ==
    /\ last.n < MaxCalls
    /\ NoteAdded(sid, text, addNote(snap, sid, text, now), mode)
    /\ UNCHANGED <<now, nextId, mutSeq, hist, host, isActive, state, stateRef, pending,
                   flows, pull, server>>

Saved(op, stamped, mode, args) ==
    /\ snap' = stamped
    /\ StoreEffects(<<stamped>>, mode)
    /\ last' = Called(op, <<stamped>>, mode) @@ [before |-> snap] @@ args

\* the participant lists of a call: none, known ids, unknown ids, and both
ParticipantLists(st) ==
    {<<>>, <<UnknownId>>}
        \cup {<<x>> : x \in StakeholderIds(st)}
        \cup {<<UnknownId, x>> : x \in StakeholderIds(st)}

\* the occurrence timestamps of a call: now, or a date of its own
OccurrenceTimes == {now, MaxTime + 1}

CallAddInteraction(participantIds, at, mode) ==
    /\ last.n < MaxCalls
    /\ Saved("addInteraction",
             addInteraction(snap,
                 [id |-> Undefined, type |-> "note", at |-> at, title |-> <<"t">>,
                  participantIds |-> participantIds, source |-> [host |-> "Web"]],
                 nextId, now),
             mode,
             [interaction |-> [id |-> Undefined, type |-> "note", at |-> at,
                               title |-> <<"t">>, participantIds |-> participantIds,
                               source |-> [host |-> "Web"]],
              id |-> nextId, t |-> now])
    /\ nextId' = nextId + 1
    /\ UNCHANGED <<now, mutSeq, hist, host, isActive, state, stateRef, pending, flows, pull,
                   server>>

CallSaveState(mode) ==
    /\ last.n < MaxCalls
    /\ Saved("saveState", saveState(snap, now), mode, [t |-> now])
    /\ UNCHANGED <<now, nextId, mutSeq, hist, host, isActive, state, stateRef, pending,
                   flows, pull, server>>

Loaded(op, ld, ret, keep) ==
    /\ memoryState' = [memoryState EXCEPT !["s1"] = ld.mem]
    /\ snap' = IF keep THEN snap ELSE ld.ret
    /\ last' = Called(op, <<>>, "ok") @@ [ret |-> ret]

CallLoadState(mode) ==
    /\ last.n < MaxCalls
    /\ Loaded("loadState", loadState(localStorage["s1"], memoryState["s1"], mode),
              loadState(localStorage["s1"], memoryState["s1"], mode).ret, FALSE)
    /\ UNCHANGED <<now, nextId, mutSeq, hist, host, isActive, state, stateRef, pending,
                   flows, pull, localStorage, server, pushes>>

CallExportState(mode) ==
    /\ last.n < MaxCalls
    /\ Loaded("exportState", loadState(localStorage["s1"], memoryState["s1"], mode),
              exportState(localStorage["s1"], memoryState["s1"], mode), TRUE)
    /\ UNCHANGED <<now, nextId, mutSeq, hist, host, isActive, state, stateRef, pending,
                   flows, pull, localStorage, server, pushes>>

\* importState(exportState()): the export reads through loadState, the import saves
RoundTripped(ld, r, mode) ==
    /\ snap' = r.ret
    /\ memoryState' = [memoryState EXCEPT !["s1"] = r.ret]
    /\ localStorage' = [localStorage EXCEPT !["s1"] = setItem(@, JSONstringify(r.ret), mode)]
    /\ pushes' = pushes (+) SetToBag({pushStateToServer(r.ret)})
    /\ BagCardinality(pushes') <= MaxInFlight
    /\ last' = Called("importState", <<r.ret>>, mode)
                @@ [before |-> snap, exported |-> ld.ret, of |-> last.saved, ret |-> r.ret]

CallImportExported(modeExport, modeImport) ==
    /\ last.n < MaxCalls
    /\ ~importState(exportState(localStorage["s1"], memoryState["s1"], modeExport), now).threw
    /\ RoundTripped(loadState(localStorage["s1"], memoryState["s1"], modeExport),
                    importState(exportState(localStorage["s1"], memoryState["s1"], modeExport),
                                now),
                    modeImport)
    /\ UNCHANGED <<now, nextId, mutSeq, hist, host, isActive, state, stateRef, pending,
                   flows, pull, server>>

\* A registry with a stakeholder who was first given a name, or none, and then the
\* ingestion flows that meet the stakeholder's address: inbox and calendar exports,
\* and pages
NextRegistry ==
    \/ Tick
    \/ /\ last.op \in {"init", "upsertStakeholderByEmail"}
       /\ \E displayName \in DisplayNames : CallUpsert(AddrA, displayName)
    \/ \E pattern \in BatchPatterns : ImportEmailBatch(Len(pattern), pattern)
    \/ \E pattern \in BatchPatterns : ImportEventBatch(Len(pattern), pattern)
    \/ \E page \in Pages : CapturePage(page)

SpecRegistry == Init /\ [][NextRegistry]_vars

\* getStateTimestamp of any snapshot
CallGetStateTimestamp(st) ==
    /\ last' = [op |-> "getStateTimestamp", st |-> st, ret |-> getStateTimestamp(st), t |-> now]
    /\ UNCHANGED <<now, nextId, mutSeq, hist, host, isActive, state, stateRef, pending, flows,
                   pull, memoryState, localStorage, server, pushes, snap>>

NextStamp ==
    \/ Tick
    \/ \E st \in Snapshots : CallGetStateTimestamp(st)

SpecStamp == Init /\ [][NextStamp]_vars

NextStore ==
    \/ Tick
    \/ \E email \in Emails, displayName \in DisplayNames : CallUpsert(email, displayName)
    \/ \E sid \in StakeholderIds(snap) \cup {nextId}, text \in NoteTexts, mode \in StorageModes :
           CallAddNote(sid, text, mode)
    \/ \E p \in ParticipantLists(snap), at \in OccurrenceTimes, mode \in StorageModes :
           CallAddInteraction(p, at, mode)
    \/ \E mode \in StorageModes : CallSaveState(mode)
    \/ \E mode \in StorageModes : CallLoadState(mode)
    \/ \E mode \in StorageModes : CallExportState(mode)
    \/ \E modeExport \in StorageModes, modeImport \in StorageModes :
           CallImportExported(modeExport, modeImport)
    \/ \E m \in BagToSet(pushes) : PushDeliver(m)
    \/ \E m \in BagToSet(pushes) : PushFail(m)

SpecStore == Init /\ [][NextStore]_vars

----------------------------------------------------------------------------
(* The entity store and the persistence adapter *)

\* a stakeholder's email as the registry compares it (an absent email is the empty text)
Normalized(email) == toLowerCase(trim(email))

SameEmail(s, email) == s.email # <<>> /\ Normalized(s.email) = Normalized(email)

\* C6: after any sequence of entity store calls from the empty registry no two
\* stakeholders have the same normalized email, and an upsert by an email some
\* stakeholder already has, however it is cased or padded, returns that stakeholder's
\* id and leaves exactly one stakeholder with the email.
C6_OneStakeholderPerEmail ==
    /\ \A i, j \in DOMAIN snap.stakeholders :
           (i # j /\ snap.stakeholders[i].email # <<>>)
               => ~SameEmail(snap.stakeholders[j], snap.stakeholders[i].email)
    /\ (last.op = "upsertStakeholderByEmail" /\ Normalized(last.email) # <<>>)
           => /\ Cardinality({i \in DOMAIN snap.stakeholders :
                                 SameEmail(snap.stakeholders[i], last.email)}) = 1
              /\ \A i \in DOMAIN snap.stakeholders :
                     SameEmail(snap.stakeholders[i], last.email)
                         => snap.stakeholders[i].id = last.ret.id
              /\ \A b \in Range(last.before.stakeholders) :
                     SameEmail(b, last.email) => b.id = last.ret.id

\* an upsert by a differently written email of an existing stakeholder returned that one
C6_Witness ==
    /\ last.op = "upsertStakeholderByEmail"
    /\ \E b \in Range(last.before.stakeholders) :
           /\ SameEmail(b, last.email)
           /\ b.email # last.email
           /\ b.id = last.ret.id
    /\ Len(snap.stakeholders) = Len(last.before.stakeholders)

\* C7: addNote with an empty or whitespace-only text, or with an id no stakeholder has,
\* returns its input unchanged: same stakeholders, interactions and aggregate timestamp.
C7_AddNoteNoOp ==
    (last.op = "addNote"
     /\ (trim(last.text) = <<>> \/ last.id \notin StakeholderIds(last.before)))
        => /\ snap.stakeholders = last.before.stakeholders
           /\ snap.interactions = last.before.interactions
           /\ snap.updatedAt = last.before.updatedAt
           /\ getStateTimestamp(snap) = getStateTimestamp(last.before)

\* C8: a call of upsertStakeholderByEmail, addNote or addInteraction leaves the durable
\* copy, the in-memory snapshot and the remote copy as they were and issues no push.
C8_EntityStoreIsPure ==
    [][(last'.n # last.n
        /\ last'.op \in {"upsertStakeholderByEmail", "addNote", "addInteraction"})
           => UNCHANGED <<memoryState, localStorage, server, pushes>>]_vars

\* C9: after a saveState whose localStorage write failed, loadState and exportState
\* return the snapshot saveState stamped last.
C9_LoadReturnsLastSaved ==
    (last.op \in {"loadState", "exportState"} /\ last.saved # Null /\ ~last.durable)
        => last.ret = IF last.op = "loadState" THEN last.saved
                      ELSE JSONstringify(last.saved)

\* C10: after saveState the in-memory snapshot holds the stamped snapshot, and so does
\* localStorage when its write went through, and the caller has it, whatever becomes of
\* the push; a request that is settled is gone (not issued again) and takes nothing of
\* the local write with it.
C10_PushFailureKeepsLocalWrite ==
    /\ [](last.op = "saveState"
             => /\ snap = last.saved
                /\ memoryState["s1"] = last.saved
                /\ last.durable => localStorage["s1"] = JSONstringify(last.saved))
    /\ [][(last' = last /\ pushes' # pushes)
             => /\ BagCardinality(pushes') < BagCardinality(pushes)
                /\ UNCHANGED <<memoryState, localStorage, snap>>]_vars

\* saveState wrote its snapshot through, and its push and every other one failed
C10_Witness ==
    /\ last.op = "saveState"
    /\ last.durable
    /\ pushes = EmptyBag
    /\ server = Null
    /\ memoryState["s1"] = last.saved
    /\ localStorage["s1"] = JSONstringify(last.saved)

----------------------------------------------------------------------------
(* Reconciliation of the local copies with the remote copy *)

\* C1: a pull that resolves after a local mutation is judged against the snapshot the
\* surface holds then (the one most recently handed to setState), so a remote snapshot
\* of lower recency than that snapshot never replaces it.
C1_PullSeesCurrentSnapshot ==
    (last.op = "PullResolve" /\ last.adopt)
        => getStateTimestamp(last.remote) >= getStateTimestamp(last.latest)

\* C2: a mutation flow applies its changes to the latest snapshot of its surface, also
\* after an await: every stakeholder and interaction of the snapshot the surface held
\* when the flow resumed is in the snapshot the flow hands to setState.
C2_FlowStartsFromLatest ==
    last.op = "FlowResume"
        => /\ StakeholderIds(last.latest) \subseteq StakeholderIds(last.working)
           /\ InteractionIds(last.latest) \subseteq InteractionIds(last.working)

\* C4: a pull that resolved on a mounted surface with a remote snapshot of aggregate
\* stamp T2, the state pointer holding a snapshot of aggregate stamp T1, adopts the
\* remote snapshot if and only if T2 > T1; with T2 = T1 or T2 < T1 the local one is kept.
C4_AdoptIffStrictlyNewer ==
    (last.op = "PullResolve" /\ last.active /\ last.remote # Null)
        => (last.adopt <=> getStateTimestamp(last.remote) > getStateTimestamp(last.ref))

\* nothing is in flight or suspended on any surface, and a pull now would change nothing
Stable ==
    /\ pushes = EmptyBag
    /\ \A s \in Surfaces :
           /\ flows[s] = {}
           /\ pending[s] = <<>>
           /\ pull[s] = Null
           /\ isActive[s] =>
                  ~syncFromServer(TRUE, loadStateFromServer(serverGet(server)), stateRef[s])

\* every mounted surface and the remote copy hold the same stakeholders and interactions
Converged ==
    \A s \in Surfaces :
        isActive[s] =>
            /\ server # Null
            /\ Range(state[s].stakeholders) = Range(server.stakeholders)
            /\ state[s].interactions = server.interactions

\* C3: once mutations have stopped and every push and pull since was answered, so that
\* nothing is left in flight and further pulls change nothing, every surface's snapshot
\* and the remote copy hold the same stakeholders and the same interactions.
C3_Convergence == Stable => Converged

\* C5: when a pull replaces a surface's snapshot by the remote one (here: the snapshot
\* the pull was judged against, no newer one waiting to be rendered), the content of the
\* snapshot replaced was not changed later than the remote snapshot's content was.
C5_LastWriterWins ==
    (last.op = "PullResolve" /\ last.adopt /\ last.latest = last.ref)
        => LastMut(last.remote) >= LastMut(last.latest)

\* a pull resolved with a remote snapshot exactly as recent as the local one, stamped both
C4_Witness ==
    /\ last.op = "PullResolve"
    /\ last.active
    /\ last.remote # Null
    /\ getStateTimestamp(last.remote) = getStateTimestamp(last.ref)
    /\ getStateTimestamp(last.ref) > 0
    /\ last.remote # last.ref
    /\ ~last.adopt

\* C14: the interaction log is append-only under the entity store: upsert and addNote
\* leave the list as it was, and addInteraction returns the new record followed by the
\* list it was given
C14_LogAppendOnly ==
    /\ last.op \in {"upsertStakeholderByEmail", "addNote"}
        => snap.interactions = last.before.interactions
    /\ last.op = "addInteraction"
        => snap.interactions
             = <<[last.interaction EXCEPT !.id = last.id]>> \o last.before.interactions

\* an interaction was appended to a log that already held one
C14_Witness ==
    /\ last.op = "addInteraction"
    /\ last.before.interactions # <<>>
    /\ Len(snap.interactions) = Len(last.before.interactions) + 1

\* C15: addInteraction sets lastInteractionAt to the interaction's occurrence time and
\* refreshes updatedAt for exactly the stakeholders whose id is listed, leaves every
\* other stakeholder as it was, creates no stakeholder for an unknown id, and gives the
\* appended record an id no record of the log had
C15_ParticipantsTouched ==
    last.op = "addInteraction" =>
        /\ DOMAIN snap.stakeholders = DOMAIN last.before.stakeholders
        /\ \A i \in DOMAIN snap.stakeholders :
               snap.stakeholders[i] =
                   IF last.before.stakeholders[i].id \in Range(last.interaction.participantIds)
                   THEN [last.before.stakeholders[i] EXCEPT
                            !.lastInteractionAt = last.interaction.at,
                            !.updatedAt = last.t]
                   ELSE last.before.stakeholders[i]
        /\ snap.interactions[1].id \notin InteractionIds(last.before)

\* a call listing a known and an unknown id, with another stakeholder in the registry
\* and an occurrence time other than the time of the call
C15_Witness ==
    /\ last.op = "addInteraction"
    /\ UnknownId \in Range(last.interaction.participantIds)
    /\ \E x \in StakeholderIds(last.before) : x \in Range(last.interaction.participantIds)
    /\ \E x \in StakeholderIds(last.before) : x \notin Range(last.interaction.participantIds)
    /\ last.interaction.at # last.t

\* the first stakeholder of a registry that has the email
FirstWithEmail(stakeholders, email) ==
    CHOOSE i \in DOMAIN stakeholders :
        /\ SameEmail(stakeholders[i], email)
        /\ \A j \in DOMAIN stakeholders : SameEmail(stakeholders[j], email) => i <= j

\* C16: an upsert that finds a stakeholder for the normalized email returns that
\* stakeholder's id, keeps the registry's size and order, replaces displayName only by
\* a name that is non-empty after trimming, refreshes updatedAt, and changes no other
\* field of that stakeholder and no field of any other
C16_UpsertExistingFrame ==
    (/\ last.op = "upsertStakeholderByEmail"
     /\ Normalized(last.email) # <<>>
     /\ \E b \in Range(last.before.stakeholders) : SameEmail(b, last.email))
        => LET before == last.before.stakeholders
               k == FirstWithEmail(before, last.email)
           IN  /\ last.ret.id = before[k].id
               /\ DOMAIN snap.stakeholders = DOMAIN before
               /\ \A i \in DOMAIN before : i # k => snap.stakeholders[i] = before[i]
               /\ snap.stakeholders[k] =
                      [before[k] EXCEPT
                          !.displayName = IF trim(last.name) # <<>> THEN trim(last.name)
                                          ELSE @,
                          !.updatedAt = last.t]
               /\ last.ret = snap.stakeholders[k]

\* an upsert without a name found its stakeholder, named otherwise than by its email
\* and created earlier, beside another stakeholder
C16_Witness ==
    /\ last.op = "upsertStakeholderByEmail"
    /\ trim(last.name) = <<>>
    /\ Len(last.before.stakeholders) = 2
    /\ Len(snap.stakeholders) = 2
    /\ last.ret.displayName # last.ret.email
    /\ last.ret.updatedAt # last.ret.createdAt

\* C17: an upsert with an empty or whitespace-only email always creates a stakeholder
\* with a fresh id and no email at the head of the registry, which grows by one; its
\* displayName is the trimmed name, or "Unknown Stakeholder" when none is supplied
C17_NoEmailAlwaysCreates ==
    (last.op = "upsertStakeholderByEmail" /\ Normalized(last.email) = <<>>)
        => /\ snap.stakeholders = <<last.ret>> \o last.before.stakeholders
           /\ last.ret.id \notin StakeholderIds(last.before)
           /\ last.ret.email = <<>>
           /\ last.ret.displayName = IF trim(last.name) # <<>> THEN trim(last.name)
                                      ELSE <<"Unknown Stakeholder">>

\* a second call with a whitespace-only email and the display name of a stakeholder
\* that has no email either
C17_Witness ==
    /\ last.op = "upsertStakeholderByEmail"
    /\ last.email = <<" ">>
    /\ \E b \in Range(last.before.stakeholders) :
           b.email = <<>> /\ b.displayName = last.ret.displayName
    /\ Len(snap.stakeholders) = Len(last.before.stakeholders) + 1

----------------------------------------------------------------------------
(* Batch imports *)

\* the places of the log a batch import filled: those in front of the previous log
Appended == 1..(Len(snap.interactions) - Len(last.before.interactions))

\* the places it filled for a record of the export
AppendedForRecords ==
    {k \in Appended : "outlookItemId" \in DOMAIN snap.interactions[k].source}

\* record i has a subject, a body or a participant that survives the inclusion filter
Included(i) ==
    \/ last.batch[i].subject # <<>>
    \/ last.batch[i].bodyPreview # <<>>
    \/ \E k \in DOMAIN last.participants[i] : isExternalEmail(last.participants[i][k])

\* C18: a batch import of N records processes the first min(N, 200) only: a record
\* after the 200th creates or updates no stakeholder and appends no interaction, and
\* each of the first 200 appends exactly one interaction if it has a subject, a body
\* or a surviving participant, and none otherwise
C18_BatchCap ==
    last.op \in {"importOutlookEmailExport", "importOutlookCalendarExport"} =>
        /\ {snap.interactions[k].source.outlookItemId : k \in AppendedForRecords}
             = {last.batch[i].id : i \in {j \in DOMAIN last.batch : j <= 200 /\ Included(j)}}
        /\ Cardinality(AppendedForRecords)
             = Cardinality({j \in DOMAIN last.batch : j <= 200 /\ Included(j)})
        /\ Cardinality(Appended) = Cardinality(AppendedForRecords) + 1
        /\ \A s \in Range(snap.stakeholders) :
               \/ s \in Range(last.before.stakeholders)
               \/ \E i \in DOMAIN last.batch : \E k \in DOMAIN last.participants[i] :
                      /\ i <= 200
                      /\ isExternalEmail(last.participants[i][k])
                      /\ Normalized(last.participants[i][k]) = s.email

\* an export of more than 200 records was imported, with records to skip among the
\* first 200 and records with a sender after them
C18_Witness ==
    /\ last.op = "importOutlookEmailExport"
    /\ Len(last.batch) > 200
    /\ \E i \in 1..200 : ~Included(i)
    /\ \E i \in 1..200 : Included(i)
    /\ \E i \in DOMAIN last.batch : i > 200 /\ Included(i) /\ last.participants[i] # <<>>
    /\ last.before.interactions # <<>>

\* C19: the inbox export with the single row {Subject: "Kickoff", From: "Jane Doe
\* <jane@acme.com>", Received: a date}, imported into an empty store, yields one
\* stakeholder, "Jane Doe" with the email jane@acme.com, one email interaction
\* "Kickoff" whose only participant is that stakeholder, and the summary note
\* "Imported 1 emails from CSV."
C19_InboxScenario ==
    (/\ last.op = "importOutlookEmailExport"
     /\ "rows" \in DOMAIN last
     /\ last.rows = InboxScenario
     /\ last.before.stakeholders = <<>>
     /\ last.before.interactions = <<>>)
        => /\ Len(snap.stakeholders) = 1
           /\ snap.stakeholders[1].displayName = Cells.janeDoe
           /\ snap.stakeholders[1].email = Cells.janeAddress
           /\ Len(snap.interactions) = 2
           /\ snap.interactions[2].type = "email"
           /\ snap.interactions[2].title = Cells.kickoff
           /\ snap.interactions[2].participantIds = <<snap.stakeholders[1].id>>
           /\ snap.interactions[1].type = "note"
           /\ snap.interactions[1].summary = <<"Imported ", "1", " emails from CSV.">>

\* what an interaction says, without its id and the stamps of its import
Told(i) == [type |-> i.type, title |-> i.title, summary |-> i.summary, source |-> i.source,
            participantIds |-> i.participantIds]

\* C21: a batch of records imported twice in succession appends the interactions of
\* the same records twice, each time with a summary note and without de-duplication by
\* source item id, while the second import leaves the number of stakeholders as the
\* first left it
C21_ImportTwice ==
    [][(/\ last.op \in {"importOutlookEmailExport", "importOutlookCalendarExport"}
        /\ last' # last
        /\ last'.op = last.op
        /\ last'.batch = last.batch)
       => /\ Len(snap'.stakeholders) = Len(snap.stakeholders)
          /\ Len(snap'.interactions) - Len(snap.interactions)
                = Len(snap.interactions) - Len(last.before.interactions)
          /\ \A k \in 1..(Len(snap.interactions) - Len(last.before.interactions)) :
                 /\ Told(snap'.interactions[k]) = Told(snap.interactions[k])
                 /\ Told(snap'.interactions[k + Len(snap'.interactions)
                                               - Len(snap.interactions)])
                      = Told(snap.interactions[k])
          /\ snap'.interactions[1].type = "note"
          /\ "outlookItemId" \notin DOMAIN snap'.interactions[1].source]_vars

\* an export of several records with senders was imported a second time: the log
\* before it held the interactions of the same records and the same summary
C21_Witness ==
    /\ last.op = "importOutlookEmailExport"
    /\ last.n = 2
    /\ Len(last.batch) > 200
    /\ Len(snap.interactions) = 2 * Len(last.before.interactions)
    /\ Len(snap.interactions) > 2
    /\ \A k \in DOMAIN last.before.interactions :
           Told(snap.interactions[k]) = Told(last.before.interactions[k])
    /\ snap.stakeholders # <<>>
    /\ Len(snap.stakeholders) = Len(last.before.stakeholders)

----------------------------------------------------------------------------
(* Pulls *)

\* C24: a pull that adopts hands the fetched remote snapshot to the surface as it is,
\* stakeholders and interactions exactly those of the remote copy and nothing of the
\* replaced local snapshot merged in; a pull that does not adopt (remote not strictly
\* newer, fetch failed, no state in the answer) leaves the surface's snapshot, the
\* durable local copy and the remote copy unchanged
C24_AdoptionIsWholesale ==
    [][(last' # last /\ last'.op = "PullResolve")
       => /\ last'.adopt =>
                /\ pending'[last'.s] = <<last'.remote>>
                /\ last'.remote.stakeholders = pull[last'.s].remote.stakeholders
                /\ last'.remote.interactions = pull[last'.s].remote.interactions
          /\ ~last'.adopt => pending' = pending
          /\ state' = state /\ stateRef' = stateRef
          /\ memoryState' = memoryState /\ localStorage' = localStorage
          /\ server' = server /\ pushes' = pushes]_vars

\* a pull adopted a remote snapshot that lacks an interaction and a stakeholder of
\* the snapshot it replaced
C24_Witness ==
    /\ last.op = "PullResolve" /\ last.adopt
    /\ pending[last.s] = <<last.remote>>
    /\ \E i \in Range(last.ref.interactions) : i \notin Range(last.remote.interactions)
    /\ \E x \in Range(last.ref.stakeholders) :
           \A y \in Range(last.remote.stakeholders) : y.id # x.id

\* C27: only a local mutation pushes a snapshot and gives it a fresh aggregate
\* timestamp: a surface that starts with a persisted snapshot, and a surface that
\* renders the remote snapshot a pull adopted, issue no request to the remote copy and
\* leave the durable copy without a stamp newer than the snapshot's own
C27_OnlyMutationsPush ==
    [][/\ \A s \in Surfaces :
              (~isActive[s] /\ isActive'[s] /\ localStorage[s] # Null)
                  => /\ pushes' = pushes
                     /\ localStorage'[s] = localStorage[s]
       /\ (/\ last.op = "PullResolve" /\ last.adopt
           /\ pending[last.s] = <<last.remote>>
           /\ last'.op = "Render")
              => /\ pushes' = pushes
                 /\ localStorage'[last.s] # Null
                        => parseIso(JSONparse(localStorage'[last.s]).updatedAt)
                             <= parseIso(last.remote.updatedAt)]_vars

\* C28: the sync loop quiesces: with mutations stopped and every push and pull
\* answered, the system reaches a state after which no pull replaces the snapshot of
\* a surface and no further push is issued
C28_Quiesces ==
    <>[][/\ ~(last' # last /\ last'.op = "PullResolve" /\ last'.adopt)
         /\ last'.op = "Advance" \/ BagCardinality(pushes') <= BagCardinality(pushes)]_vars

\* the last mutation of all was a reset
ResetWasLast == mutSeq > 0 /\ [content |-> Content(EmptyState), seq |-> mutSeq] \in hist

\* C29: after a confirmed reset, and no mutation since, the surface's snapshot has no
\* stakeholders and no interactions in every later state, whatever pulls resolve: one
\* that was in flight at the reset, one that fetched a remote snapshot with
\* interactions that occur after the reset
C29_ResetIsDurable ==
    ResetWasLast =>
        \A s \in Acting :
            /\ state[s].stakeholders = <<>> /\ state[s].interactions = <<>>
            /\ Latest(s).stakeholders = <<>> /\ Latest(s).interactions = <<>>

----------------------------------------------------------------------------
(* Recency *)

\* what a timestamp counts for: 0 when it is absent or no date
Counts(timestamp) == IF timestamp \in Nat \ {Undefined} THEN timestamp ELSE 0

\* C23: getStateTimestamp is the maximum of 0, the aggregate updatedAt, every
\* stakeholder's createdAt and updatedAt and every interaction's at, an absent or
\* unparseable timestamp counting as 0; it is 0 for an empty snapshot without a stamp,
\* and lastInteractionAt and the timestamps of notes do not contribute
C23_Recency ==
    last.op = "getStateTimestamp" =>
        /\ \A x \in {Counts(last.st.updatedAt)}
                    \cup {Counts(s.createdAt) : s \in Range(last.st.stakeholders)}
                    \cup {Counts(s.updatedAt) : s \in Range(last.st.stakeholders)}
                    \cup {Counts(i.at) : i \in Range(last.st.interactions)} :
               x <= last.ret
        /\ last.ret \in {0, Counts(last.st.updatedAt)}
                         \cup {Counts(s.createdAt) : s \in Range(last.st.stakeholders)}
                         \cup {Counts(s.updatedAt) : s \in Range(last.st.stakeholders)}
                         \cup {Counts(i.at) : i \in Range(last.st.interactions)}
        /\ (last.st.stakeholders = <<>> /\ last.st.interactions = <<>>
             /\ last.st.updatedAt = Undefined) => last.ret = 0

\* a snapshot whose stakeholder has a note and a last contact later than every
\* timestamp that counts, and an unparseable stamp, was measured
C23_Witness ==
    /\ last.op = "getStateTimestamp"
    /\ last.st.updatedAt < 0
    /\ \E s \in Range(last.st.stakeholders) :
           /\ s.lastInteractionAt > last.ret
           /\ \E n \in Range(s.notes) : n.createdAt > last.ret
           /\ s.createdAt = last.ret
    /\ \E i \in Range(last.st.interactions) : i.at = Undefined
    /\ last.ret > 0

----------------------------------------------------------------------------
(* The impact analysis *)

\* the entries of the answer whose stakeholderId names a stakeholder of the list
Resolving(result, stakeholders) ==
    SelectSeq(IF "impacts" \in DOMAIN result THEN result.impacts ELSE <<>>,
              LAMBDA r : \E x \in Range(stakeholders) : x.id = r.stakeholderId)

\* C22: the rendered impact rows are exactly the entries of the answer whose
\* stakeholderId resolves to a stakeholder of the current stakeholder list, in the
\* order of the answer; entries with an unknown id are dropped, and a row is "red" only
\* when the answer said exactly "red", and "green" otherwise
C22_RowsResolveInCurrentList ==
    last.op = "runImpactAnalysisAndRender" =>
        /\ Len(last.rows) = Len(Resolving(last.result, last.current))
        /\ \A k \in DOMAIN last.rows :
               /\ last.rows[k].stakeholderId
                    = Resolving(last.result, last.current)[k].stakeholderId
               /\ last.rows[k].reaction
                    = IF Resolving(last.result, last.current)[k].reaction = "red"
                      THEN "red" ELSE "green"

\* C25: a batch import appends exactly one summary interaction, a note without
\* participants, and the count it reports is the number of records the import
\* processed: the number of records of the file, or 200 if the file has more
C25_SummaryCount ==
    last.op \in {"importOutlookEmailExport", "importOutlookCalendarExport"} =>
        /\ Cardinality(Appended \ AppendedForRecords) = 1
        /\ snap.interactions[1].type = "note"
        /\ snap.interactions[1].participantIds = <<>>
        /\ "outlookItemId" \notin DOMAIN snap.interactions[1].source
        /\ SubSeq(snap.interactions[1].summary, 2, Len(snap.interactions[1].summary) - 1)
             = toString(IF Len(last.batch) < 200 THEN Len(last.batch) ELSE 200)

----------------------------------------------------------------------------
(* The inclusion predicate *)

\* an identity that fails the inclusion predicate: no "@" in it, or an address in the
\* internal domain bcg.com or in a subdomain of it
FailsInclusion(identity) ==
    \/ ~includes(identity, "@")
    \/ afterLastAt(identity) = InternalDomain
    \/ endsWith(afterLastAt(identity), <<".">> \o InternalDomain)

\* the stakeholders a flow created or updated
Touched == {s \in Range(snap.stakeholders) : s \notin Range(last.before.stakeholders)}

\* C20: in every ingestion flow an identity that fails the inclusion predicate creates
\* or updates no stakeholder and is no participant of an interaction; and the page that
\* names bob@acme.com twice and alice@bcg.com once, captured where neither is known,
\* yields exactly one new stakeholder, bob@acme.com
C20_OnlyIncludedIdentities ==
    /\ last.op # "init" =>
           /\ \A s \in Touched : ~FailsInclusion(s.email)
           /\ \A k \in DOMAIN snap.interactions :
                  \A p \in Range(snap.interactions[k].participantIds) :
                      \E s \in Range(snap.stakeholders) :
                          s.id = p /\ ~FailsInclusion(s.email)
    /\ (last.op = "captureFromOneNote" /\ last.page = PageScenario
         /\ \A s \in Range(last.before.stakeholders) : s.email # <<"b", "o", "b">> \o
                <<"@", "a", "c", "m", "e", ".", "c", "o", "m">>)
           => /\ Len(snap.stakeholders) = Len(last.before.stakeholders) + 1
              /\ Cardinality(Touched) = 1
              /\ \A s \in Touched : s.email = <<"b", "o", "b">> \o
                     <<"@", "a", "c", "m", "e", ".", "c", "o", "m">>

\* the page of the scenario was captured into a store that held other stakeholders,
\* after identities of the internal domain and a bare name had been met
C20_Witness ==
    /\ last.op = "captureFromOneNote" /\ last.page = PageScenario
    /\ last.before.stakeholders # <<>>
    /\ Cardinality(Touched) = 1
    /\ Len(snap.interactions[1].participantIds) = 1

\* C26: the participantIds of every interaction an ingestion flow appended is a set:
\* no stakeholder id occurs in it twice, also when the address appears several times
\* in the source record (as sender and recipient, in To and Cc, in another letter case)
C26_ParticipantsAreASet ==
    \A k \in DOMAIN snap.interactions :
        \A i, j \in DOMAIN snap.interactions[k].participantIds :
            i # j => snap.interactions[k].participantIds[i]
                       # snap.interactions[k].participantIds[j]

\* C30: an ingestion flow that meets the address of a stakeholder already in the
\* registry leaves the stakeholder's displayName unchanged: a name given to a
\* stakeholder is never replaced by the stakeholder's email address
C30_DisplayNameKept ==
    last.op \in {"importOutlookEmailExport", "importOutlookCalendarExport",
                 "captureFromOneNote"} =>
        \A x \in Range(last.before.stakeholders) :
            \A y \in Range(snap.stakeholders) :
                y.id = x.id => /\ y.displayName = x.displayName
                               /\ x.displayName # x.email => y.displayName # y.email

----------------------------------------------------------------------------
(* Import and export of the workspace *)

\* a file whose text JSON.parse rejects, or whose value has no readable properties (null)
Malformed(jsonText) == ~parses(jsonText) \/ JSONparse(jsonText) = Null

\* C11: a malformed state import is reported as a failure and leaves the store as it was:
\* the surface's snapshot (rendered and pending), the durable local copy, the in-memory
\* copy and the remote copy are unchanged, and no request is issued
C11_MalformedImportChangesNothing ==
    [][(last' # last /\ last'.op = "ImportJsonFile" /\ Malformed(last'.text))
        => /\ last'.alert
           /\ state' = state /\ stateRef' = stateRef /\ pending' = pending
           /\ localStorage' = localStorage /\ memoryState' = memoryState
           /\ server' = server /\ pushes' = pushes]_vars

\* a malformed file was refused while the workspace held imported mail and a durable copy
C11_Witness ==
    /\ last.op = "ImportJsonFile" /\ Malformed(last.text) /\ last.alert
    /\ state[last.s].interactions # <<>>
    /\ localStorage[last.s] # Null
    /\ server # Null

\* C12: importState(exportState()) after a valid snapshot S was saved yields a snapshot
\* with the stakeholders and the interactions of S
C12_RoundTrip ==
    (last.op = "importState" /\ last.of # Null)
        => /\ last.ret.stakeholders = last.of.stakeholders
           /\ last.ret.interactions = last.of.interactions

----------------------------------------------------------------------------
(* Teardown of a surface *)

\* the surfaces whose effect cleanup has run
TornDown(s) == host[s] # "Unknown" /\ ~isActive[s]

\* C13: once a surface is torn down no pull starts on it, and a pull that resolves on
\* it, even one that was in flight at teardown and carries a strictly newer remote
\* snapshot, is not applied: the surface's snapshot, the durable local copy and the
\* remote copy stay as they were
C13_NoPullAfterTeardown ==
    [][/\ \A s \in Surfaces : (TornDown(s) /\ pull[s] = Null) => pull'[s] = Null
       /\ \A s \in Surfaces : TornDown(s) =>
              /\ state'[s] = state[s] /\ stateRef'[s] = stateRef[s] /\ pending'[s] = <<>>
       /\ (last' # last /\ last'.op = "PullResolve" /\ TornDown(last'.s))
            => /\ ~last'.adopt
               /\ localStorage' = localStorage /\ memoryState' = memoryState
               /\ server' = server /\ pushes' = pushes]_vars

\* a pull in flight at teardown resolved afterwards with a strictly newer remote snapshot
C13_Witness ==
    /\ last.op = "PullResolve" /\ ~last.active /\ TornDown(last.s)
    /\ last.remote # Null
    /\ getStateTimestamp(last.remote) > getStateTimestamp(last.ref)
    /\ Content(last.remote) # Content(state[last.s])

====
